---- MODULE Spec2Model ----
(***************************************************************************)
(* Verification model of the Valorant straddle bot (package bot/).         *)
(*                                                                         *)
(* Three specifications share the definitions below:                       *)
(*   Spec      a client driving PositionTracker and ValorantStraddleStrategy*)
(*             through their public methods (bot/positions/service.py,     *)
(*             bot/strategy_engine/service.py);                            *)
(*   SpecExec  a client driving RestExecutionEngine against a venue        *)
(*             (bot/execution_engine/service.py);                          *)
(*   SpecBot   the orchestrator ValorantStraddleBot (bot/cli/main.py) with *)
(*             the market scanner, the order-book feed and the store.      *)
(*                                                                         *)
(* Conventions.  Prices are integers in cents (0.18 is 18, 1.0 is 100).    *)
(* Sizes and P/L are exact rationals [n, d] (P/L in cents x shares); the   *)
(* rounding of binary floating point is not modelled.  Strings that the    *)
(* code searches (market ids, client order ids) are sequences of           *)
(* one-character strings, so that `"yes" in s.lower()` is a real substring *)
(* search.  Python's None is the value None below.  A Python exception is  *)
(* the outcome [raised |-> name].                                          *)
(***************************************************************************)
EXTENDS Integers, Sequences, FiniteSets, TLC

VARIABLES
    heap,        \* the StraddlePosition objects ever constructed, by object id
    positions,   \* PositionTracker._positions : market id -> object id (0: no key)
    now,         \* the clock read by datetime.now() / time.time()
    lastOp,      \* the last call made by the client and what it returned
    resolves,    \* how many times resolve_position was called on each object
    venue,       \* the venue's book of orders: order hash -> status ("absent": none)
    pending_orders,  \* RestExecutionEngine._pending_orders : order hash -> LiveOrder
    execRet,     \* what submit_order did and how it ended, if it was the last call
    wf,          \* the frame of wait_for_fills, if it is the call in progress or the last
    pc,          \* where ValorantStraddleBot.run is: "new", a phase, "stopped", "cancelled"
    active_markets,      \* ValorantStraddleBot._active_markets
    scanned_markets,     \* GammaMarketScanner._scanned_markets
    books,               \* InMemoryOrderbookEngine._books : market id -> snapshot
    subscribed_markets,  \* InMemoryOrderbookEngine._subscribed_markets
    risk,        \* SimpleRiskManager: [active_positions, total_exposure, bankroll]
    db,          \* the table straddle_positions: market id -> sequence of 0 or 1 row
    posted,      \* the payloads the orchestrator's execution engine has POSTed
    tickLog      \* what the last scan_and_enter and check_exits did, market by market

trackerVars == <<heap, positions, now, lastOp, resolves>>
execVars == <<venue, pending_orders, execRet, wf>>
botVars == <<pc, active_markets, scanned_markets, books, subscribed_markets, risk, db,
             posted, tickLog>>

----------------------------------------------------------------------------
(* Bounds of the model *)

MaxObjects == 1
MaxTime == 1
MaxResolves == 2
MaxTimeout == 2
MaxClock == 3

----------------------------------------------------------------------------
(* Values *)

None == -1

RECURSIVE GCD(_, _)
GCD(a, b) == IF b = 0 THEN a ELSE GCD(b, a % b)

Abs(x) == IF x < 0 THEN -x ELSE x

\* the rational n/d in lowest terms, d > 0
Rat(n, d) ==
    LET g == GCD(Abs(n), Abs(d))
        s == IF d < 0 THEN -1 ELSE 1
    IN  [n |-> s * (n \div g), d |-> s * (d \div g)]

RatInt(k) == [n |-> k, d |-> 1]
RatAdd(a, b) == Rat(a.n * b.d + b.n * a.d, a.d * b.d)
RatSub(a, b) == Rat(a.n * b.d - b.n * a.d, a.d * b.d)
RatScale(k, a) == Rat(k * a.n, a.d)
RatLeq(a, b) == a.n * b.d <= b.n * a.d
RatLt(a, b) == a.n * b.d < b.n * a.d

Zero == RatInt(0)

\* str.lower() on the characters that occur in the ids of the model
Lower(c) ==
    CASE c = "Y" -> "y" [] c = "E" -> "e" [] c = "S" -> "s"
      [] c = "N" -> "n" [] c = "O" -> "o" [] OTHER -> c

LowerStr(s) == [i \in 1..Len(s) |-> Lower(s[i])]

\* Python's `sub in s`
Contains(sub, s) ==
    \E i \in 1..(Len(s) - Len(sub) + 1) : SubSeq(s, i, i + Len(sub) - 1) = sub

StrYes == <<"y", "e", "s">>
StrNo == <<"n", "o">>

\* market ids handed to the components: one without and one with the letters "no"
M1 == <<"m", "1">>
M2 == <<"n", "o", "v", "a">>
Markets == {M1, M2}

\* f"{market.id}-YES" / f"{market.id}-NO"
LegId(m, side) ==
    IF side = "YES" THEN m \o <<"-", "Y", "E", "S">> ELSE m \o <<"-", "N", "O">>

Sides == {"YES", "NO"}

----------------------------------------------------------------------------
(* bot/models.py *)

StraddleStates == {"WAITING_ENTRY", "ENTERED", "EXITED", "RESOLVED"}

\* OrderIntent(market_id, side, price, size, ttl_seconds, client_order_id, metadata)
OrderIntent(market_id, side, price, size, ttl, coid, kind) ==
    [market_id |-> market_id, side |-> side, price |-> price, size |-> size,
     ttl_seconds |-> ttl, client_order_id |-> coid, type |-> kind]

\* FillEvent(market_id, order_hash, side, price, size, filled_at)
FillEvent(market_id, order_hash, side, price, size, filled_at) ==
    [market_id |-> market_id, order_hash |-> order_hash, side |-> side,
     price |-> price, size |-> size, filled_at |-> filled_at]

\* StraddlePosition(...): exit_price, exit_time default to None and both P/L to 0.0
StraddlePosition(market_id, yes_price, no_price, yes_size, no_size, cheap, fav, state, t) ==
    [market_id |-> market_id,
     yes_entry_price |-> yes_price, no_entry_price |-> no_price,
     yes_size |-> yes_size, no_size |-> no_size,
     cheap_side |-> cheap, favorite_side |-> fav,
     state |-> state,
     entry_time |-> t, last_update_time |-> t,
     exit_price |-> None, exit_time |-> None,
     realized_pnl |-> Zero, unrealized_pnl |-> Zero]

----------------------------------------------------------------------------
(* bot/positions/service.py : PositionTracker.  Each operator gives the    *)
(* object as the method leaves it; the actions below store it back under   *)
(* the same object id, which is the in-place mutation of the code.         *)

\* create_position: the position object built from the two entry orders
create_position(market_id, yes_order, no_order, t) ==
    LET yes_price == yes_order.intent.price
        no_price == no_order.intent.price
        cheap == IF yes_price < no_price THEN "YES" ELSE "NO"
        fav == IF yes_price < no_price THEN "NO" ELSE "YES"
    IN  StraddlePosition(market_id, yes_price, no_price,
                         yes_order.intent.size, no_order.intent.size, cheap, fav,
                         "ENTERED", t)

\* the test of lines 68-70: a SELL whose market id names the cheap side
IsCheapSideSell(position, fill) ==
    /\ fill.side = "SELL"
    /\ \/ position.cheap_side = "YES" /\ Contains(StrYes, LowerStr(fill.market_id))
       \/ position.cheap_side = "NO" /\ Contains(StrNo, LowerStr(fill.market_id))

\* update_position_from_fill without the test of the state (line 65)
update_position_from_fill_any_state(position, fill, t) ==
    LET p1 == [position EXCEPT !.last_update_time = t]
    IN  IF IsCheapSideSell(p1, fill)
        THEN [p1 EXCEPT !.exit_price = fill.price, !.exit_time = fill.filled_at,
                        !.state = "EXITED",
                        !.realized_pnl = RatScale((IF p1.cheap_side = "YES"
                                                   THEN p1.yes_entry_price
                                                   ELSE p1.no_entry_price) - fill.price,
                                                  fill.size)]
        ELSE p1

\* update_position_from_fill accepting a fill while the position is ENTERED or EXITED
update_position_from_fill_while_open(position, fill, t) ==
    IF position.state \in {"ENTERED", "EXITED"}
    THEN update_position_from_fill_any_state(position, fill, t)
    ELSE [position EXCEPT !.last_update_time = t]

update_position_from_fill(position, fill, t) ==
    LET p1 == [position EXCEPT !.last_update_time = t]
    IN  IF p1.state = "ENTERED" /\ IsCheapSideSell(p1, fill)
        THEN LET entry == IF p1.cheap_side = "YES"
                          THEN p1.yes_entry_price ELSE p1.no_entry_price
                 realized_loss == RatScale(entry - fill.price, fill.size)
             IN  [p1 EXCEPT !.exit_price = fill.price,
                            !.exit_time = fill.filled_at,
                            !.state = "EXITED",
                            !.realized_pnl = realized_loss]
        ELSE p1

\* resolve_position that stores the gain of the favourite instead of adding it
resolve_position_gain_only(position, final_outcome, t) ==
    LET p1 == [position EXCEPT !.state = "RESOLVED", !.last_update_time = t]
    IN  IF p1.favorite_side = final_outcome
        THEN LET size == IF p1.favorite_side = "YES" THEN p1.yes_size ELSE p1.no_size
                 price == IF p1.favorite_side = "YES"
                          THEN p1.yes_entry_price ELSE p1.no_entry_price
             IN  [p1 EXCEPT !.realized_pnl = RatSub(RatScale(100, size), RatScale(price, size))]
        ELSE p1

resolve_position(position, final_outcome, t) ==
    LET p1 == [position EXCEPT !.state = "RESOLVED", !.last_update_time = t]
    IN  IF p1.favorite_side = final_outcome
        THEN LET size == IF p1.favorite_side = "YES" THEN p1.yes_size ELSE p1.no_size
                 price == IF p1.favorite_side = "YES"
                          THEN p1.yes_entry_price ELSE p1.no_entry_price
                 favorite_payout == RatScale(100, size)
                 favorite_cost == RatScale(price, size)
                 favorite_gain == RatSub(favorite_payout, favorite_cost)
             IN  [p1 EXCEPT !.realized_pnl = RatAdd(p1.realized_pnl, favorite_gain)]
        ELSE p1

\* calculate_unrealized_pnl: [ret |-> the value returned, pos |-> the object after]
calculate_unrealized_pnl(position, current_yes_price, current_no_price) ==
    IF position.state # "ENTERED"
    THEN [ret |-> position.realized_pnl, pos |-> position]
    ELSE IF current_yes_price = None \/ current_no_price = None
    THEN [ret |-> Zero, pos |-> position]
    ELSE LET yes_value == RatScale(current_yes_price, position.yes_size)
             no_value == RatScale(current_no_price, position.no_size)
             yes_cost == RatScale(position.yes_entry_price, position.yes_size)
             no_cost == RatScale(position.no_entry_price, position.no_size)
             unrealized == RatSub(RatAdd(yes_value, no_value), RatAdd(yes_cost, no_cost))
         IN  [ret |-> unrealized, pos |-> [position EXCEPT !.unrealized_pnl = unrealized]]

\* get_active_positions keeping the ENTERED objects only
get_active_positions_entered_only(pmap, hp) ==
    {positions_id \in {pmap[m] : m \in DOMAIN pmap} \ {0} : hp[positions_id].state = "ENTERED"}

\* get_active_positions: the ids of the tracked objects that are not RESOLVED
get_active_positions(pmap, hp) ==
    {positions_id \in {pmap[m] : m \in DOMAIN pmap} \ {0} : hp[positions_id].state # "RESOLVED"}

----------------------------------------------------------------------------
(* bot/config.py and ValorantStraddleBot.__init__ / main() *)

entry_price_tolerance == 5
exit_threshold == 18
position_size_pct == 3
max_concurrent_positions == 5
max_order_ttl_seconds == 120
max_exposure_per_market == 100
max_total_exposure == 1000
Bankroll == 1000

----------------------------------------------------------------------------
(* bot/strategy_engine/service.py : ValorantStraddleStrategy.              *)
(* An order-book snapshot is [present, best_ask]: present = FALSE is the   *)
(* None that get_snapshot returns for an unknown market, best_ask = None   *)
(* a snapshot without an ask.                                              *)

Book(ask) == [present |-> TRUE, best_ask |-> ask]
NoBook == [present |-> FALSE, best_ask |-> None]

\* abs(yes_price - 0.5) <= tolerance, evaluated in IEEE doubles for a price of
\* c cents: 0.55 - 0.5 is 0.050000000000000044 > 0.05, 0.5 - 0.45 is below 0.05
yes_near_50(c) == 50 - entry_price_tolerance <= c /\ c < 50 + entry_price_tolerance

\* abs((1.0 - yes_price) - 0.5) <= tolerance, in doubles: 1.0 - 0.45 is 0.55
no_near_50(c) == 50 - entry_price_tolerance < c /\ c < 50 + entry_price_tolerance

should_enter(book) ==
    IF ~book.present THEN FALSE
    ELSE IF book.best_ask = None THEN FALSE
    ELSE yes_near_50(book.best_ask) /\ no_near_50(book.best_ask)

\* str(uuid.uuid4()): hexadecimal digits and hyphens
Uuid == <<"4", "f", "-", "a">>

\* generate_entry_orders with one number of shares for both legs, the position
\* size at a price of 0.5, in place of one stake for both legs
generate_entry_orders_equal_shares(market_id, book, bankroll) ==
    IF ~should_enter(book) THEN <<>>
    ELSE LET position_size == bankroll * position_size_pct
             yes_price == IF book.best_ask = 0 THEN 50 ELSE book.best_ask
             no_price == 100 - yes_price
             shares == Rat(position_size, 50)
         IN  << OrderIntent(LegId(market_id, "YES"), "BUY", yes_price, shares,
                            max_order_ttl_seconds, Uuid \o <<"-", "y", "e", "s">>, "entry"),
                OrderIntent(LegId(market_id, "NO"), "BUY", no_price, shares,
                            max_order_ttl_seconds, Uuid \o <<"-", "n", "o">>, "entry") >>

\* generate_entry_orders: the sequence of OrderIntent it returns
generate_entry_orders(market_id, book, bankroll) ==
    IF ~should_enter(book) THEN <<>>
    ELSE LET position_size == bankroll * position_size_pct   \* in cents
             yes_price == IF book.best_ask = 0 THEN 50 ELSE book.best_ask
             no_price == 100 - yes_price
             yes_size == Rat(position_size, yes_price)
             no_size == Rat(position_size, no_price)
         IN  << OrderIntent(LegId(market_id, "YES"), "BUY", yes_price, yes_size,
                            max_order_ttl_seconds, Uuid \o <<"-", "y", "e", "s">>, "entry"),
                OrderIntent(LegId(market_id, "NO"), "BUY", no_price, no_size,
                            max_order_ttl_seconds, Uuid \o <<"-", "n", "o">>, "entry") >>

\* check_exits: the sequence of OrderIntent it returns
check_exits(position, book) ==
    IF position.state # "ENTERED" THEN <<>>
    ELSE IF ~book.present THEN <<>>
    ELSE LET cheap_price == book.best_ask
         IN  IF cheap_price = None THEN <<>>
             ELSE IF cheap_price <= exit_threshold
             THEN << OrderIntent(position.market_id, "SELL", cheap_price,
                                 IF position.cheap_side = "YES"
                                 THEN position.yes_size ELSE position.no_size,
                                 max_order_ttl_seconds,
                                 <<"e", "x", "i", "t", "-">> \o position.market_id
                                     \o <<"-">> \o Uuid,
                                 "exit") >>
             ELSE <<>>

\* update_position_state with <= in line 192: equal prices make YES the cheap side
update_position_state_ties_yes(position, book, t) ==
    IF position.state = "RESOLVED" THEN [raised |-> "", pos |-> position]
    ELSE IF ~book.present THEN [raised |-> "AttributeError", pos |-> position]
    ELSE LET p1 == IF book.best_ask # None
                   THEN IF book.best_ask <= 100 - book.best_ask
                        THEN [position EXCEPT !.cheap_side = "YES", !.favorite_side = "NO"]
                        ELSE [position EXCEPT !.cheap_side = "NO", !.favorite_side = "YES"]
                   ELSE position
         IN  [raised |-> "", pos |-> [p1 EXCEPT !.last_update_time = t]]

\* update_position_state: [raised, pos]; a None book has no attribute best_ask
update_position_state(position, book, t) ==
    IF position.state = "RESOLVED" THEN [raised |-> "", pos |-> position]
    ELSE IF ~book.present THEN [raised |-> "AttributeError", pos |-> position]
    ELSE LET p1 == IF book.best_ask # None
                   THEN IF book.best_ask < 100 - book.best_ask
                        THEN [position EXCEPT !.cheap_side = "YES", !.favorite_side = "NO"]
                        ELSE [position EXCEPT !.cheap_side = "NO", !.favorite_side = "YES"]
                   ELSE position
         IN  [raised |-> "", pos |-> [p1 EXCEPT !.last_update_time = t]]

----------------------------------------------------------------------------
(* bot/order_builder/service.py and bot/execution_engine/service.py *)

\* str(x) of a number and float(s) of such a string
StrOf(x) == <<"str", x>>
FloatOf(s) == s[2]

LowerSide(side) == IF side = "BUY" THEN "buy" ELSE IF side = "SELL" THEN "sell" ELSE side
UpperSide(side) == IF side = "buy" THEN "BUY" ELSE IF side = "sell" THEN "SELL" ELSE side

\* ClobOrderBuilder.build without a CLOB client: the unsigned payload
build(intent) ==
    [market |-> intent.market_id, side |-> LowerSide(intent.side),
     price |-> StrOf(intent.price), size |-> StrOf(intent.size),
     expiration |-> intent.ttl_seconds, clientOrderId |-> intent.client_order_id,
     type |-> intent.type]

\* the names bound in the module bot/execution_engine/service.py when it has been
\* imported: its imports (lines 1-11) and its two classes.  It imports nothing
\* from bot.models or bot.config; under `from __future__ import annotations`
\* the annotations are not evaluated, so the import itself succeeds.
ExecModuleNames ==
    {"annotations", "ABC", "abstractmethod", "List", "Optional", "datetime",
     "timezone", "time", "random", "requests", "HTTPAdapter", "Retry",
     "ExecutionEngine", "RestExecutionEngine"}

\* evaluating a global name of that module that is not bound raises NameError
NameDefined(name) == name \in ExecModuleNames

LiveOrder(order_hash, intent, created_at, status) ==
    [order_hash |-> order_hash, intent |-> intent, created_at |-> created_at,
     status |-> status]

\* the OrderIntent that submit_order rebuilds from the payload (lines 92-100, 121-129)
IntentOfPayload(payload) ==
    OrderIntent(payload.market, UpperSide(payload.side), FloatOf(payload.price),
                FloatOf(payload.size), payload.expiration, payload.clientOrderId,
                payload.type)

max_retries == 3

RECURSIVE BackoffBase(_)
\* the base of the back-off slept after failed attempt number `attempt` (from 0):
\* 2 ** attempt seconds, plus a jitter below one second
BackoffBase(attempt) == IF attempt = 0 THEN 1 ELSE 2 * BackoffBase(attempt - 1)

\* submit_order.  `answers` is what the venue does with each POST that reaches it:
\* [ok, hash, status], ok = FALSE being a transport or HTTP error.  Gives
\* [attempts, sleeps, accepted, raised, order, stored]: the POSTs made, the
\* back-offs slept, the answer of the accepted POST (or none), the exception
\* raised to the caller ("" when it returns), the LiveOrder returned and whether
\* it was stored in _pending_orders.
submit_order(payload, answers, t) ==
    LET oks == {i \in 1..max_retries : answers[i].ok}
        first == IF oks = {} THEN 0 ELSE CHOOSE i \in oks : \A j \in oks : i <= j
        attempts == IF first = 0 THEN max_retries ELSE first
        nsleeps == IF first = 0 THEN max_retries - 1 ELSE first - 1
        sleeps == [i \in 1..nsleeps |-> BackoffBase(i - 1)]
        base == [attempts |-> attempts, sleeps |-> sleeps]
    IN  IF first = 0
        THEN \* the last attempt failed: lines 88-106
             IF NameDefined("OrderIntent") /\ NameDefined("LiveOrder")
             THEN [attempts |-> attempts, sleeps |-> sleeps, accepted |-> <<>>,
                   raised |-> "",
                   order |-> <<LiveOrder("", IntentOfPayload(payload), t, "failed")>>,
                   stored |-> FALSE]
             ELSE [attempts |-> attempts, sleeps |-> sleeps, accepted |-> <<>>,
                   raised |-> "NameError", order |-> <<>>, stored |-> FALSE]
        ELSE \* order_data = response.json(): lines 115-139
             IF NameDefined("OrderIntent") /\ NameDefined("LiveOrder")
             THEN [attempts |-> attempts, sleeps |-> sleeps,
                   accepted |-> <<answers[first]>>, raised |-> "",
                   order |-> <<LiveOrder(answers[first].hash, IntentOfPayload(payload),
                                         t, answers[first].status)>>,
                   stored |-> TRUE]
             ELSE [attempts |-> attempts, sleeps |-> sleeps,
                   accepted |-> <<answers[first]>>, raised |-> "NameError",
                   order |-> <<>>, stored |-> FALSE]

\* _get_fill_details: [raised, fill]
get_fill_details(order, t) ==
    IF order.status # "filled" THEN [raised |-> "", fill |-> <<>>]
    ELSE IF ~NameDefined("FillEvent") THEN [raised |-> "NameError", fill |-> <<>>]
    ELSE [raised |-> "",
          fill |-> <<FillEvent(order.intent.market_id, order.order_hash, order.intent.side,
                               order.intent.price, order.intent.size, t)>>]

TerminalStatuses == {"filled", "cancelled", "failed"}

RECURSIVE CollectFills(_, _, _)
\* the for loop of lines 183-188 over orders[i..]: [raised, fills]
CollectFills(orders, i, t) ==
    IF i > Len(orders) THEN [raised |-> "", fills |-> <<>>]
    ELSE LET d == get_fill_details(orders[i], t)
         IN  IF d.raised # "" THEN [raised |-> d.raised, fills |-> <<>>]
             ELSE LET rest == CollectFills(orders, i + 1, t)
                  IN  [raised |-> rest.raised, fills |-> d.fill \o rest.fills]

all_done(orders) == \A i \in 1..Len(orders) : orders[i].status \in TerminalStatuses

\* the index without the key order_hash: _pending_orders.pop(order_hash, None)
Pop(index, order_hash) == [k \in DOMAIN index \ {order_hash} |-> index[k]]

\* cancel_order with no except clause: the failure of the DELETE reaches the caller
cancel_order_unguarded(index, order_hash, ok) ==
    IF ok THEN [raised |-> "", index |-> Pop(index, order_hash)]
    ELSE [raised |-> "RequestException", index |-> index]

\* cancel_order.  `ok` is what the venue does with the DELETE (FALSE: a transport
\* or HTTP error, raised by requests.delete or by raise_for_status).  Gives
\* [raised, index]: the exception raised to the caller and _pending_orders after.
cancel_order(index, order_hash, ok) ==
    IF ok THEN [raised |-> "", index |-> Pop(index, order_hash)]
    ELSE [raised |-> "", index |-> index]

RECURSIVE cancel_unfilled_orders(_, _, _, _, _, _)
\* cancel_unfilled_orders over orders[i..], the DELETE for orders[j] being
\* answered oks[j]: [deletes, index], the positions in `orders` of the orders a
\* cancel_order was called for, and _pending_orders after
cancel_unfilled_orders(index, orders, i, timeout_seconds, oks, t) ==
    IF i > Len(orders) THEN [deletes |-> <<>>, index |-> index]
    ELSE LET order == orders[i]
             age_seconds == t - order.created_at
         IN  IF age_seconds > timeout_seconds /\ order.status \notin {"filled", "cancelled"}
             THEN LET c == cancel_order(index, order.order_hash, oks[i])
                      rest == cancel_unfilled_orders(c.index, orders, i + 1,
                                                     timeout_seconds, oks, t)
                  IN  [deletes |-> <<i>> \o rest.deletes, index |-> rest.index]
             ELSE cancel_unfilled_orders(index, orders, i + 1, timeout_seconds, oks, t)

----------------------------------------------------------------------------
(* Spec: a client of PositionTracker and ValorantStraddleStrategy.  It     *)
(* keeps the objects the methods return (as the tests do) and may call any *)
(* method on any of them, in any order.                                    *)

\* the entry quotes (YES price, NO price) of the orders given to create_position
EntryQuotes == {<<30, 70>>, <<70, 30>>, <<50, 50>>}
YesSizes == {RatInt(100)}
NoSizes == {RatInt(60)}
\* best asks of the snapshots given to the strategy, and prices of the fills
Asks == {None, 18, 19, 50, 82}
FillPrices == {18, 60}
FillSizes == {RatInt(60)}
\* current YES prices given to calculate_unrealized_pnl (the NO price is the complement)
MarkPrices == {None, 50}
\* best asks of the snapshots given to generate_entry_orders
EntryAsks == {None, 45, 46, 54, 55}

FillMarketIds == Markets \cup {LegId(m, s) : m \in Markets, s \in Sides}

Objects == 1..Len(heap)

NoFill == FillEvent(<<>>, "", "", None, Zero, None)

NoOp == [op |-> "", obj |-> 0, book |-> NoBook, fill |-> NoFill, ret |-> <<>>, raised |-> ""]

TrackerInit ==
    /\ heap = <<>>
    /\ positions = [m \in Markets |-> 0]
    /\ now = 0
    /\ lastOp = NoOp
    /\ resolves = <<>>

Tick ==
    /\ now < MaxTime
    /\ now' = now + 1
    /\ UNCHANGED <<heap, positions, lastOp, resolves, execVars, botVars>>

CreatePosition ==
    \E m \in Markets, q \in EntryQuotes, ys \in YesSizes, ns \in NoSizes :
        /\ Len(heap) < MaxObjects
        /\ LET yes_intent == OrderIntent(LegId(m, "YES"), "BUY", q[1], ys,
                                         max_order_ttl_seconds, Uuid \o <<"-", "y", "e", "s">>, "entry")
               no_intent == OrderIntent(LegId(m, "NO"), "BUY", q[2], ns,
                                        max_order_ttl_seconds, Uuid \o <<"-", "n", "o">>, "entry")
           IN  heap' = Append(heap, create_position(m,
                                        LiveOrder("h1", yes_intent, now, "filled"),
                                        LiveOrder("h2", no_intent, now, "filled"),
                                        now))
        /\ positions' = [positions EXCEPT ![m] = Len(heap) + 1]
        /\ lastOp' = [NoOp EXCEPT !.op = "create_position", !.obj = Len(heap) + 1]
        /\ resolves' = Append(resolves, 0)
        /\ UNCHANGED <<now, execVars, botVars>>

UpdatePositionFromFill ==
    \E id \in Objects, fm \in FillMarketIds, side \in {"BUY", "SELL"},
       price \in FillPrices, size \in FillSizes :
        /\ LET fill == FillEvent(fm, "h1", side, price, size, now)
           IN  /\ heap' = [heap EXCEPT ![id] = update_position_from_fill(heap[id], fill, now)]
               /\ lastOp' = [NoOp EXCEPT !.op = "update_position_from_fill", !.obj = id,
                                         !.fill = fill]
        /\ UNCHANGED <<positions, now, resolves, execVars, botVars>>

ResolvePosition ==
    \E id \in Objects, final_outcome \in Sides :
        /\ resolves[id] < MaxResolves
        /\ resolves' = [resolves EXCEPT ![id] = @ + 1]
        /\ heap' = [heap EXCEPT ![id] = resolve_position(heap[id], final_outcome, now)]
        /\ lastOp' = [NoOp EXCEPT !.op = "resolve_position", !.obj = id,
                                  !.ret = <<final_outcome>>]
        /\ UNCHANGED <<positions, now, execVars, botVars>>

CalculateUnrealizedPnl ==
    \E id \in Objects, y \in MarkPrices :
        /\ LET r == calculate_unrealized_pnl(heap[id], y, IF y = None THEN None ELSE 100 - y)
           IN  /\ heap' = [heap EXCEPT ![id] = r.pos]
               /\ lastOp' = [NoOp EXCEPT !.op = "calculate_unrealized_pnl", !.obj = id,
                                         !.ret = <<r.ret, y,
                                                   IF y = None THEN None ELSE 100 - y>>]
        /\ UNCHANGED <<positions, now, resolves, execVars, botVars>>

UpdatePositionState ==
    \E id \in Objects, book \in {NoBook} \cup {Book(a) : a \in Asks} :
        /\ LET r == update_position_state(heap[id], book, now)
           IN  /\ heap' = [heap EXCEPT ![id] = r.pos]
               /\ lastOp' = [NoOp EXCEPT !.op = "update_position_state", !.obj = id,
                                         !.book = book, !.raised = r.raised]
        /\ UNCHANGED <<positions, now, resolves, execVars, botVars>>

CheckExits ==
    \E id \in Objects, book \in {NoBook} \cup {Book(a) : a \in Asks} :
        /\ lastOp' = [NoOp EXCEPT !.op = "check_exits", !.obj = id, !.book = book,
                                  !.ret = check_exits(heap[id], book)]
        /\ UNCHANGED <<heap, positions, now, resolves, execVars, botVars>>

ShouldEnter ==
    \E book \in {NoBook} \cup {Book(a) : a \in EntryAsks} :
        /\ lastOp' = [NoOp EXCEPT !.op = "should_enter", !.book = book,
                                  !.ret = <<should_enter(book)>>]
        /\ UNCHANGED <<heap, positions, now, resolves, execVars, botVars>>

\* the strategy is built with the bankroll of the bot (main.py line 41)
GenerateEntryOrders ==
    \E m \in {M1}, book \in {NoBook} \cup {Book(a) : a \in EntryAsks} :
        /\ lastOp' = [NoOp EXCEPT !.op = "generate_entry_orders", !.book = book,
                                  !.ret = generate_entry_orders(m, book, Bankroll)]
        /\ UNCHANGED <<heap, positions, now, resolves, execVars, botVars>>

GetActivePositions ==
    /\ lastOp' = [NoOp EXCEPT !.op = "get_active_positions",
                              !.ret = <<get_active_positions(positions, heap)>>]
    /\ UNCHANGED <<heap, positions, now, resolves, execVars, botVars>>

RemovePosition ==
    \E m \in Markets :
        /\ positions' = [positions EXCEPT ![m] = 0]
        /\ lastOp' = [NoOp EXCEPT !.op = "remove_position"]
        /\ UNCHANGED <<heap, now, resolves, execVars, botVars>>

Next ==
    \/ Tick
    \/ CreatePosition
    \/ UpdatePositionFromFill
    \/ ResolvePosition
    \/ CalculateUnrealizedPnl
    \/ UpdatePositionState
    \/ CheckExits
    \/ ShouldEnter
    \/ GenerateEntryOrders
    \/ GetActivePositions
    \/ RemovePosition

----------------------------------------------------------------------------
(* SpecExec: a client of RestExecutionEngine, and the venue.  The client    *)
(* submits payloads built by ClobOrderBuilder and waits on LiveOrder objects *)
(* it holds; the venue answers the POSTs and fills orders on its own.       *)

Hashes == {"h1", "h2"}
OrderStatuses == {"pending", "open", "filled", "cancelled", "failed"}

\* the intents the client builds payloads from
ClientIntents ==
    {OrderIntent(LegId(M1, sd), "BUY", 50, RatInt(60), max_order_ttl_seconds,
                 Uuid \o (IF sd = "YES" THEN <<"-", "y", "e", "s">> ELSE <<"-", "n", "o">>),
                 "entry") : sd \in Sides}
    \cup {OrderIntent(M1, "SELL", 18, RatInt(60), max_order_ttl_seconds,
                      <<"e", "x", "i", "t", "-">> \o M1 \o <<"-">> \o Uuid, "exit")}

NoAnswer == [ok |-> FALSE, hash |-> "", status |-> ""]

\* the last call of the client: for submit_order the fields of its result; for
\* the cancels, `args` (what was passed, and the venue's answers), `before`
\* (the index at the call) and `deletes` (the orders a DELETE was sent for)
NoRet == [op |-> "", attempts |-> 0, sleeps |-> <<>>, accepted |-> <<>>,
          raised |-> "", order |-> <<>>, stored |-> FALSE,
          args |-> <<>>, before |-> <<>>, deletes |-> <<>>]

IdleFrame == [status |-> "idle", orders |-> <<>>, timeout |-> 0, elapsed |-> 0,
              fills |-> <<>>, raised |-> "", filledDuring |-> {}]

ExecIdle ==
    /\ venue = [h \in Hashes |-> "absent"]
    /\ pending_orders = <<>>
    /\ execRet = NoRet
    /\ wf = IdleFrame

\* the client calls submit_order(build(intent)); `fails` POSTs fail before the
\* venue accepts one (max_retries: none is accepted)
SubmitOrder ==
    \E intent \in ClientIntents, fails \in 0..max_retries,
       h \in Hashes \cup {""}, st \in {"pending", "open", "filled"} :
        /\ wf.status # "polling"
        /\ h # "" => venue[h] = "absent"
        /\ fails = max_retries => h = "" /\ st = "pending"
        /\ LET answers == [i \in 1..max_retries |->
                               IF i <= fails THEN NoAnswer
                               ELSE [ok |-> TRUE, hash |-> h, status |-> st]]
               r == submit_order(build(intent), answers, now)
           IN  /\ execRet' = [NoRet EXCEPT !.op = "submit_order", !.attempts = r.attempts,
                                           !.sleeps = r.sleeps, !.accepted = r.accepted,
                                           !.raised = r.raised, !.order = r.order,
                                           !.stored = r.stored, !.before = pending_orders]
               /\ venue' = IF r.accepted # <<>> /\ h # ""
                           THEN [venue EXCEPT ![h] = st] ELSE venue
               /\ pending_orders' =
                      IF r.stored
                      THEN [k \in DOMAIN pending_orders \cup {r.order[1].order_hash} |->
                               IF k = r.order[1].order_hash THEN r.order[1]
                               ELSE pending_orders[k]]
                      ELSE pending_orders
        /\ wf' = IdleFrame
        /\ UNCHANGED <<trackerVars, botVars>>

\* the venue fills, or cancels, an order that is live with it
VenueFill ==
    \E h \in Hashes :
        /\ venue[h] \in {"pending", "open"}
        /\ venue' = [venue EXCEPT ![h] = "filled"]
        /\ wf' = IF /\ wf.status = "polling" /\ wf.elapsed < wf.timeout
                    /\ \E i \in 1..Len(wf.orders) : wf.orders[i].order_hash = h
                 THEN [wf EXCEPT !.filledDuring = @ \cup {h}] ELSE wf
        /\ UNCHANGED <<pending_orders, execRet, trackerVars, botVars>>

VenueCancel ==
    \E h \in Hashes :
        /\ venue[h] \in {"pending", "open"}
        /\ venue' = [venue EXCEPT ![h] = "cancelled"]
        /\ UNCHANGED <<pending_orders, execRet, wf, trackerVars, botVars>>

\* the LiveOrder objects the client can hold: one per order of the venue, with
\* the status the venue gives it now, and the order of a failed submission
ClientOrders ==
    {LiveOrder(h, CHOOSE i \in ClientIntents : i.type = "exit", 0, venue[h]) :
        h \in {k \in Hashes : venue[k] # "absent"}}
    \cup {LiveOrder("", CHOOSE i \in ClientIntents : i.type = "exit", 0, "failed")}

ClientOrderLists ==
    {<<o>> : o \in ClientOrders}
    \cup {<<o1, o2>> : o1 \in ClientOrders, o2 \in ClientOrders}

\* the client calls wait_for_fills(orders, timeout_seconds): lines 179-180
WaitBegin ==
    \E orders \in ClientOrderLists, timeout \in 0..MaxTimeout :
        /\ wf.status # "polling"
        /\ now + timeout <= MaxClock
        /\ \A i, j \in 1..Len(orders) : i # j => orders[i].order_hash # orders[j].order_hash
        /\ wf' = [IdleFrame EXCEPT !.status = "polling", !.orders = orders,
                                   !.timeout = timeout]
        /\ execRet' = NoRet
        /\ UNCHANGED <<venue, pending_orders, trackerVars, botVars>>

\* one evaluation of the loop condition and, if it holds, of the body: lines 182-200
WaitPoll ==
    /\ wf.status = "polling"
    /\ IF wf.elapsed < wf.timeout
       THEN LET c == CollectFills(wf.orders, 1, now)
            IN  IF c.raised # ""
                THEN /\ wf' = [wf EXCEPT !.status = "raised", !.raised = c.raised]
                     /\ now' = now
                ELSE IF all_done(wf.orders)
                THEN /\ wf' = [wf EXCEPT !.status = "returned", !.fills = @ \o c.fills]
                     /\ now' = now
                ELSE /\ wf' = [wf EXCEPT !.fills = @ \o c.fills, !.elapsed = @ + 1]
                     /\ now' = now + 1
       ELSE /\ wf' = [wf EXCEPT !.status = "returned"]
            /\ now' = now
    /\ UNCHANGED <<venue, pending_orders, execRet, heap, positions, lastOp, resolves, botVars>>

\* what a DELETE that the venue answers with success does to the venue's order
Deleted(v, h) == IF h \in Hashes /\ v[h] \in {"pending", "open"}
                 THEN [v EXCEPT ![h] = "cancelled"] ELSE v

RECURSIVE DeletedAll(_, _, _, _, _)
\* the venue after the DELETEs of cancel_unfilled_orders for orders[deletes[k..]]
DeletedAll(v, orders, deletes, oks, k) ==
    IF k > Len(deletes) THEN v
    ELSE DeletedAll(IF oks[deletes[k]] THEN Deleted(v, orders[deletes[k]].order_hash) ELSE v,
                    orders, deletes, oks, k + 1)

\* the client calls cancel_order(order_hash)
CancelOrder ==
    \E order_hash \in Hashes \cup {""}, ok \in BOOLEAN :
        /\ wf.status # "polling"
        /\ LET c == cancel_order(pending_orders, order_hash, ok)
           IN  /\ execRet' = [NoRet EXCEPT !.op = "cancel_order", !.raised = c.raised,
                                           !.args = <<order_hash, ok>>,
                                           !.before = pending_orders,
                                           !.deletes = <<order_hash>>]
               /\ pending_orders' = c.index
               /\ venue' = IF ok THEN Deleted(venue, order_hash) ELSE venue
        /\ wf' = IdleFrame
        /\ UNCHANGED <<trackerVars, botVars>>

\* the client calls cancel_unfilled_orders(orders, timeout_seconds)
CancelUnfilledOrders ==
    \E orders \in ClientOrderLists, timeout_seconds \in 0..MaxTimeout,
       oks \in [1..2 -> BOOLEAN] :
        /\ wf.status # "polling"
        /\ \A i \in 1..2 : i > Len(orders) => oks[i]
        /\ LET c == cancel_unfilled_orders(pending_orders, orders, 1, timeout_seconds, oks, now)
           IN  /\ execRet' = [NoRet EXCEPT !.op = "cancel_unfilled_orders",
                                           !.args = <<orders, timeout_seconds, now>>,
                                           !.before = pending_orders,
                                           !.deletes = c.deletes]
               /\ pending_orders' = c.index
               /\ venue' = DeletedAll(venue, orders, c.deletes, oks, 1)
        /\ wf' = IdleFrame
        /\ UNCHANGED <<trackerVars, botVars>>

ExecNext ==
    \/ SubmitOrder
    \/ VenueFill
    \/ VenueCancel
    \/ WaitBegin
    \/ WaitPoll
    \/ CancelOrder
    \/ CancelUnfilledOrders

----------------------------------------------------------------------------
(* bot/risk/service.py : SimpleRiskManager.  Money is in cents: a price in  *)
(* cents times a size, or a bankroll in dollars times a percentage.         *)

NoRisk == [active_positions |-> <<>>, total_exposure |-> Zero, bankroll |-> Bankroll]

\* the exposure of lines 68-71: the total cost of entry of a position
Exposure(position) ==
    RatAdd(RatScale(position.yes_entry_price, position.yes_size),
           RatScale(position.no_entry_price, position.no_size))

\* register_straddle_position, the position being the object `id`
register_straddle_position(r, id, position) ==
    [r EXCEPT !.active_positions = Append(@, id),
              !.total_exposure = RatAdd(@, Exposure(position))]

\* calculate_position_size: [ret, risk]; it stores the bankroll it is given
calculate_position_size(r, bankroll) ==
    LET max_size == bankroll * position_size_pct
        limit == 100 * max_exposure_per_market
    IN  [ret |-> IF max_size <= limit THEN max_size ELSE limit,
         risk |-> [r EXCEPT !.bankroll = bankroll]]

RECURSIVE SumExposure(_, _, _)
\* the sum(...) of lines 79-83 over the objects ids[i..]
SumExposure(ids, hp, i) ==
    IF i > Len(ids) THEN Zero
    ELSE RatAdd(Exposure(hp[ids[i]]), SumExposure(ids, hp, i + 1))

\* the sequence without its element at i: list.remove, once the element is found
RemoveAt(seq, i) == SubSeq(seq, 1, i - 1) \o SubSeq(seq, i + 1, Len(seq))

\* the places of the list whose object equals the object `id`; a dataclass
\* compares by the values of its fields, so `in` and `remove` find an equal object
EqualTo(r, id, hp) == {i \in 1..Len(r.active_positions) : hp[r.active_positions[i]] = hp[id]}

\* unregister_straddle_position that removes the position and keeps the total
unregister_straddle_position_keep_total(r, id, hp) ==
    IF EqualTo(r, id, hp) = {} THEN r
    ELSE LET i == CHOOSE k \in EqualTo(r, id, hp) : \A j \in EqualTo(r, id, hp) : k <= j
         IN  [r EXCEPT !.active_positions = RemoveAt(@, i)]

\* unregister_straddle_position, the position being the object `id` of heap hp
unregister_straddle_position(r, id, hp) ==
    IF EqualTo(r, id, hp) = {} THEN r
    ELSE LET i == CHOOSE k \in EqualTo(r, id, hp) : \A j \in EqualTo(r, id, hp) : k <= j
             rest == RemoveAt(r.active_positions, i)
         IN  [r EXCEPT !.active_positions = rest,
                       !.total_exposure = SumExposure(rest, hp, 1)]

\* can_enter_new_position without the test of lines 88-89
can_enter_new_position_any_count(r, proposed_size) ==
    LET new_exposure == RatAdd(r.total_exposure, RatInt(proposed_size))
        max_exposure == r.bankroll * (max_concurrent_positions * position_size_pct)
    IN  IF RatLt(RatInt(max_exposure), new_exposure) THEN FALSE
        ELSE IF RatLt(RatInt(100 * max_total_exposure), new_exposure) THEN FALSE
        ELSE TRUE

\* can_enter_new_position without the test of lines 99-100
can_enter_new_position_relative_only(r, proposed_size) ==
    IF Len(r.active_positions) >= max_concurrent_positions THEN FALSE
    ELSE LET new_exposure == RatAdd(r.total_exposure, RatInt(proposed_size))
             max_exposure == r.bankroll * (max_concurrent_positions * position_size_pct)
         IN  IF RatLt(RatInt(max_exposure), new_exposure) THEN FALSE
             ELSE TRUE

can_enter_new_position(r, proposed_size) ==
    IF Len(r.active_positions) >= max_concurrent_positions THEN FALSE
    ELSE LET new_exposure == RatAdd(r.total_exposure, RatInt(proposed_size))
             max_exposure == r.bankroll * (max_concurrent_positions * position_size_pct)
         IN  IF RatLt(RatInt(max_exposure), new_exposure) THEN FALSE
             ELSE IF RatLt(RatInt(100 * max_total_exposure), new_exposure) THEN FALSE
             ELSE TRUE

----------------------------------------------------------------------------
(* SpecRisk: a client of SimpleRiskManager.  It holds StraddlePosition      *)
(* objects and calls the methods of the manager in any order; GatedEntry is *)
(* the use the orchestrator makes of it, a registration behind the gate.    *)

MaxRegistered == 6

\* the values of the positions the client builds, one of 10 dollars and one of
\* 60 dollars; it builds as many objects as there are values, equal ones included
RiskPositions ==
    {StraddlePosition(M1, 50, 50, RatInt(10), RatInt(10), "NO", "YES", "ENTERED", 0),
     StraddlePosition(M2, 48, 52, Rat(3000, 48), Rat(3000, 52), "YES", "NO", "ENTERED", 0)}
\* bankrolls in dollars, proposed sizes in cents
Bankrolls == {Bankroll, 10 * Bankroll}
ProposedSizes == {0, 3000, 15000, 20000, 120000, 200000}

\* what a call of the manager found and answered
RiskCall(r, proposed_size, result) ==
    [registered |-> Len(r.active_positions), total_exposure |-> r.total_exposure,
     bankroll |-> r.bankroll, proposed_size |-> proposed_size, result |-> result,
     before |-> r]

riskRest == <<positions, now, resolves, execVars, pc, active_markets, scanned_markets,
              books, subscribed_markets, db, posted, tickLog>>

NewStraddlePosition ==
    \E position \in RiskPositions :
        /\ Len(heap) < Cardinality(RiskPositions)
        /\ heap' = Append(heap, position)
        /\ lastOp' = [NoOp EXCEPT !.op = "StraddlePosition", !.obj = Len(heap) + 1]
        /\ UNCHANGED <<risk, riskRest>>

RegisterStraddlePosition ==
    \E id \in Objects :
        /\ Len(risk.active_positions) < MaxRegistered
        /\ risk' = register_straddle_position(risk, id, heap[id])
        /\ lastOp' = [NoOp EXCEPT !.op = "register_straddle_position", !.obj = id,
                                  !.ret = <<RiskCall(risk, 0, TRUE)>>]
        /\ UNCHANGED <<heap, riskRest>>

UnregisterStraddlePosition ==
    \E id \in Objects :
        /\ risk' = unregister_straddle_position(risk, id, heap)
        /\ lastOp' = [NoOp EXCEPT !.op = "unregister_straddle_position", !.obj = id,
                                  !.ret = <<RiskCall(risk, 0, TRUE)>>]
        /\ UNCHANGED <<heap, riskRest>>

CalculatePositionSize ==
    \E bankroll \in Bankrolls :
        /\ LET c == calculate_position_size(risk, bankroll)
           IN  /\ risk' = c.risk
               /\ lastOp' = [NoOp EXCEPT !.op = "calculate_position_size",
                                         !.ret = <<RiskCall(risk, 0, c.ret)>>]
        /\ UNCHANGED <<heap, riskRest>>

CanEnterNewPosition ==
    \E proposed_size \in ProposedSizes :
        /\ lastOp' = [NoOp EXCEPT !.op = "can_enter_new_position",
                                  !.ret = <<RiskCall(risk, proposed_size,
                                             can_enter_new_position(risk, proposed_size))>>]
        /\ UNCHANGED <<heap, risk, riskRest>>

\* main.py lines 104-105 and 139: the position is registered only behind the gate
GatedEntry ==
    \E proposed_size \in ProposedSizes, id \in Objects :
        /\ LET ok == can_enter_new_position(risk, proposed_size)
           IN  /\ risk' = IF ok THEN register_straddle_position(risk, id, heap[id]) ELSE risk
               /\ lastOp' = [NoOp EXCEPT !.op = "gated_entry", !.obj = id,
                                         !.ret = <<RiskCall(risk, proposed_size, ok)>>]
        /\ UNCHANGED <<heap, riskRest>>

\* PositionTracker.resolve_position on an object the client holds; the manager's
\* list holds the same object, so it sees the new state
ResolveRegisteredPosition ==
    \E id \in Objects, final_outcome \in {"YES"} :
        /\ heap[id].state # "RESOLVED"
        /\ \E i \in 1..Len(risk.active_positions) : risk.active_positions[i] = id
        /\ heap' = [heap EXCEPT ![id] = resolve_position(heap[id], final_outcome, now)]
        /\ lastOp' = [NoOp EXCEPT !.op = "resolve_position", !.obj = id,
                                  !.ret = <<final_outcome>>]
        /\ UNCHANGED <<risk, riskRest>>

RiskNext ==
    \/ NewStraddlePosition
    \/ RegisterStraddlePosition
    \/ UnregisterStraddlePosition
    \/ CalculatePositionSize
    \/ CanEnterNewPosition
    \/ ResolveRegisteredPosition
    \/ GatedEntry

----------------------------------------------------------------------------
(* bot/persistence/service.py : SqlitePersistence, table straddle_positions. *)
(* The table has market_id as its primary key: db[m] is the sequence of the  *)
(* rows for market m, of length 0 or 1.                                      *)

\* datetime.isoformat() and datetime.fromisoformat(); Null is SQL's NULL
IsoFormat(t) == <<"iso", t>>
Null == <<>>
FromIsoFormat(s) == s[2]

\* the row that save_straddle_position writes (lines 234-251)
RowOf(position) ==
    [position EXCEPT !.entry_time = IsoFormat(@),
                     !.last_update_time = IsoFormat(@),
                     !.exit_time = IF @ # None THEN IsoFormat(@) ELSE Null]

\* the StraddlePosition that load_straddle_positions builds from a row (lines 267-282)
PositionOfRow(row) ==
    [row EXCEPT !.entry_time = FromIsoFormat(@),
                !.last_update_time = FromIsoFormat(@),
                !.exit_time = IF @ # Null THEN FromIsoFormat(@) ELSE None]

\* INSERT OR IGNORE in the place of INSERT OR REPLACE: the first write wins
save_straddle_position_first_wins(table, position) ==
    IF table[position.market_id] # <<>> THEN table
    ELSE [table EXCEPT ![position.market_id] = <<RowOf(position)>>]

\* INSERT OR REPLACE
save_straddle_position(table, position) ==
    [table EXCEPT ![position.market_id] = <<RowOf(position)>>]

\* SELECT * ... WHERE state != 'RESOLVED', the rows coming in the order `order`
load_straddle_positions(table, order) ==
    LET ms == SelectSeq(order, LAMBDA m : /\ table[m] # <<>>
                                          /\ table[m][1].state # "RESOLVED")
    IN  [i \in 1..Len(ms) |-> PositionOfRow(table[ms[i]][1])]

\* get_straddle_position: the position in a sequence, the empty sequence for None
get_straddle_position(table, market_id) ==
    IF table[market_id] = <<>> THEN <<>> ELSE <<PositionOfRow(table[market_id][1])>>

----------------------------------------------------------------------------
(* bot/market_scanner/service.py : GammaMarketScanner.scan.  A listing of   *)
(* the API's answer is [id, win, outcomes, age]: whether the question has   *)
(* "win" in it, the number of outcomes, the age in seconds (None: no        *)
(* created_at).                                                             *)

min_market_age_seconds == 300

Listing(id, win, outcomes, age) ==
    [id |-> id, win |-> win, outcomes |-> outcomes, age |-> age]

RECURSIVE scan_no_cache(_, _, _)
\* scan without the test of _scanned_markets (line 56)
scan_no_cache(data, i, cache) ==
    IF i > Len(data) THEN [markets |-> <<>>, cache |-> cache]
    ELSE LET market_data == data[i]
             skip == \/ ~market_data.win
                     \/ market_data.outcomes # 2
                     \/ market_data.age # None /\ market_data.age < min_market_age_seconds
         IN  IF skip THEN scan_no_cache(data, i + 1, cache)
             ELSE LET rest == scan_no_cache(data, i + 1, cache \cup {market_data.id})
                  IN  [markets |-> <<market_data.id>> \o rest.markets, cache |-> rest.cache]

RECURSIVE scan(_, _, _)
\* the for loop of lines 54-105 from listing i on: [markets, cache]
scan(data, i, cache) ==
    IF i > Len(data) THEN [markets |-> <<>>, cache |-> cache]
    ELSE LET market_data == data[i]
             skip == \/ market_data.id \in cache
                     \/ ~market_data.win
                     \/ market_data.outcomes # 2
                     \/ market_data.age # None /\ market_data.age < min_market_age_seconds
         IN  IF skip THEN scan(data, i + 1, cache)
             ELSE LET rest == scan(data, i + 1, cache \cup {market_data.id})
                  IN  [markets |-> <<market_data.id>> \o rest.markets, cache |-> rest.cache]

----------------------------------------------------------------------------
(* bot/cli/main.py : ValorantStraddleBot.  The operators work on a bundle b *)
(* of the state the orchestrator and its components hold, with the log of   *)
(* what was done for each market and the exception that ended the loop.     *)

EntryWaitSeconds == 60
ExitWaitSeconds == 30

\* obj.intent: an object without that attribute raises AttributeError.  An
\* OrderIntent has the attributes of models.py lines 45-52, a LiveOrder has intent.
GetIntent(obj) ==
    IF "intent" \in DOMAIN obj
    THEN [raised |-> "", value |-> <<obj.intent>>]
    ELSE [raised |-> "AttributeError", value |-> <<>>]

\* what the venue does with the POSTs of one phase: `fails` of them fail before one
\* is accepted, and the order number k is answered with status `status`
VenueAnswers(env, k) ==
    [i \in 1..max_retries |->
        IF i <= env.fails THEN NoAnswer
        ELSE [ok |-> TRUE, hash |-> IF k = 1 THEN "h1" ELSE "h2", status |-> env.status]]

RECURSIVE BuildAll(_, _)
\* the list comprehension of line 114 from order i on: [raised, payloads]
BuildAll(entry_orders, i) ==
    IF i > Len(entry_orders) THEN [raised |-> "", payloads |-> <<>>]
    ELSE LET g == GetIntent(entry_orders[i])
         IN  IF g.raised # "" THEN [raised |-> g.raised, payloads |-> <<>>]
             ELSE LET rest == BuildAll(entry_orders, i + 1)
                  IN  [raised |-> rest.raised,
                       payloads |-> <<build(g.value[1])>> \o rest.payloads]

RECURSIVE submit_orders(_, _, _, _)
\* RestExecutionEngine.submit_orders from payload k on: [raised, orders, posted]
submit_orders(payloads, k, env, t) ==
    IF k > Len(payloads) THEN [raised |-> "", orders |-> <<>>, posted |-> <<>>]
    ELSE LET r == submit_order(payloads[k], VenueAnswers(env, k), t)
         IN  IF r.raised # ""
             THEN [raised |-> r.raised, orders |-> <<>>, posted |-> <<payloads[k]>>]
             ELSE LET rest == submit_orders(payloads, k + 1, env, t)
                  IN  [raised |-> rest.raised, orders |-> r.order \o rest.orders,
                       posted |-> <<payloads[k]>> \o rest.posted]

RECURSIVE wait_for_fills(_, _, _, _, _)
\* RestExecutionEngine.wait_for_fills as its caller sees it: the loop of lines
\* 182-200 from `elapsed` seconds on, the orders keeping the status they have
wait_for_fills(orders, timeout_seconds, elapsed, fills, t) ==
    IF elapsed >= timeout_seconds THEN [raised |-> "", fills |-> fills]
    ELSE LET c == CollectFills(orders, 1, t)
         IN  IF c.raised # "" THEN [raised |-> c.raised, fills |-> <<>>]
             ELSE IF all_done(orders) THEN [raised |-> "", fills |-> fills \o c.fills]
             ELSE wait_for_fills(orders, timeout_seconds, elapsed + 1, fills \o c.fills, t)

\* next((o for o in live_orders if sub in o.intent.client_order_id), None)
FirstWith(sub, live_orders) ==
    LET hits == {i \in 1..Len(live_orders) :
                    Contains(sub, live_orders[i].intent.client_order_id)}
    IN  IF hits = {} THEN <<>>
        ELSE <<live_orders[CHOOSE i \in hits : \A j \in hits : i <= j]>>

Logged(b, m, what) == [b EXCEPT !.log = Append(@, [market |-> m, outcome |-> what])]
Raised(b, m, what) == [Logged(b, m, what) EXCEPT !.raised = what]

\* lines 128-149: what scan_and_enter does with the fills of the two entry orders
enter_position(b, m, live_orders, fills, t) ==
    IF Len(fills) = 2
    THEN LET yes_order == FirstWith(StrYes, live_orders)
             no_order == FirstWith(StrNo, live_orders)
         IN  IF yes_order # <<>> /\ no_order # <<>>
             THEN LET position == create_position(m, yes_order[1], no_order[1], t)
                      id == Len(b.heap) + 1
                  IN  [Logged(b, m, "entered") EXCEPT
                          !.heap = Append(@, position),
                          !.positions = [@ EXCEPT ![m] = id],
                          !.risk = register_straddle_position(@, id, position),
                          !.db = save_straddle_position(@, position),
                          !.subscribed_markets = @ \cup {m},
                          !.active_markets = @ \cup {m}]
             ELSE Logged(b, m, "unpaired")
    ELSE [Logged(b, m, "partial") EXCEPT
             !.cancelled = @ \cup {live_orders[i].order_hash : i \in
                                     {j \in 1..Len(live_orders) :
                                         live_orders[j].status # "filled"}}]

\* the body of the for loop of scan_and_enter, lines 88-149, for one market
scan_and_enter_market(b, m, book, env, t) ==
    IF m \in b.active_markets THEN Logged(b, m, "active")
    ELSE IF ~book.present THEN Logged(b, m, "no_book")
    ELSE IF ~should_enter(book) THEN Logged(b, m, "no_entry")
    ELSE LET size == calculate_position_size(b.risk, Bankroll)
             b1 == [b EXCEPT !.risk = size.risk]
         IN  IF ~can_enter_new_position(b1.risk, size.ret)
             THEN Logged(b1, m, "risk_limit")
             ELSE LET entry_orders == generate_entry_orders(m, book, Bankroll)
                      built == BuildAll(entry_orders, 1)
                  IN  IF entry_orders = <<>> THEN Logged(b1, m, "no_orders")
                      ELSE IF built.raised # "" THEN Raised(b1, m, built.raised)
                      ELSE LET s == submit_orders(built.payloads, 1, env, t)
                               b2 == [b1 EXCEPT !.posted = @ \o s.posted]
                               w == wait_for_fills(s.orders, EntryWaitSeconds, 0, <<>>, t)
                           IN  IF s.raised # "" THEN Raised(b2, m, s.raised)
                               ELSE IF w.raised # "" THEN Raised(b2, m, w.raised)
                               ELSE enter_position(b2, m, s.orders, w.fills, t)

RECURSIVE scan_and_enter_loop(_, _, _, _, _, _)
\* the for loop of line 87 from market i on; an exception ends it (line 151)
scan_and_enter_loop(b, markets, i, bks, env, t) ==
    IF i > Len(markets) \/ b.raised # "" THEN b
    ELSE scan_and_enter_loop(scan_and_enter_market(b, markets[i], bks[markets[i]], env, t),
                             markets, i + 1, bks, env, t)

\* the body of the for loop of check_exits, lines 160-193, for the object id
check_exits_position(b, id, book, env, t) ==
    LET position == b.heap[id]
        m == position.market_id
    IN  IF position.state # "ENTERED" THEN Logged(b, m, "not_entered")
        ELSE IF ~book.present THEN Logged(b, m, "no_book")
        ELSE LET u == update_position_state(position, book, t)
                 b1 == [b EXCEPT !.heap[id] = u.pos]
                 exit_orders == check_exits(u.pos, book)
             IN  IF exit_orders = <<>> THEN Logged(b1, m, "hold")
                 ELSE LET g == GetIntent(exit_orders[1])
                      IN  IF g.raised # "" THEN Raised(b1, m, g.raised)
                          ELSE LET payload == build(g.value[1])
                                   r == submit_order(payload, VenueAnswers(env, 1), t)
                                   b2 == [b1 EXCEPT !.posted = Append(@, payload)]
                                   w == wait_for_fills(r.order, ExitWaitSeconds, 0, <<>>, t)
                               IN  IF r.raised # "" THEN Raised(b2, m, r.raised)
                                   ELSE IF w.raised # "" THEN Raised(b2, m, w.raised)
                                   ELSE IF w.fills = <<>> THEN Logged(b2, m, "no_fill")
                                   ELSE LET p2 == update_position_from_fill(u.pos, w.fills[1], t)
                                        IN  [Logged(b2, m, "exit_executed") EXCEPT
                                                !.heap[id] = p2,
                                                !.db = save_straddle_position(@, p2)]

RECURSIVE check_exits_loop(_, _, _, _, _, _)
\* the for loop of line 159 from the i-th active position on
check_exits_loop(b, ids, i, bks, env, t) ==
    IF i > Len(ids) \/ b.raised # "" THEN b
    ELSE check_exits_loop(check_exits_position(b, ids[i], bks[b.heap[ids[i]].market_id],
                                               env, t),
                          ids, i + 1, bks, env, t)

\* initialize without line 70: the market is not recorded as active
initialize_position_not_active(b, position) ==
    LET id == Len(b.heap) + 1
    IN  [b EXCEPT !.heap = Append(@, position),
                  !.positions = [@ EXCEPT ![position.market_id] = id],
                  !.risk = register_straddle_position(@, id, position),
                  !.subscribed_markets = @ \cup {position.market_id}]

\* lines 67-70: what initialize does with one loaded position
initialize_position(b, position) ==
    LET id == Len(b.heap) + 1
    IN  [b EXCEPT !.heap = Append(@, position),
                  !.positions = [@ EXCEPT ![position.market_id] = id],
                  !.risk = register_straddle_position(@, id, position),
                  !.subscribed_markets = @ \cup {position.market_id},
                  !.active_markets = @ \cup {position.market_id}]

RECURSIVE initialize_loop(_, _, _)
\* the for loop of line 66 from the i-th loaded position on
initialize_loop(b, loaded, i) ==
    IF i > Len(loaded) THEN b
    ELSE initialize_loop(initialize_position(b, loaded[i]), loaded, i + 1)

----------------------------------------------------------------------------
(* SpecBot: ValorantStraddleBot.run (lines 204-241) with its environment:   *)
(* the table of positions a previous run left, the Gamma API answering the  *)
(* scanner, the feed calling InMemoryOrderbookEngine.update_snapshot, and   *)
(* the venue.  Each phase of the loop is one step: nothing else runs on the *)
(* event loop between its awaits.                                           *)

RECURSIVE SortedSeq(_)
\* the members of a set of numbers, in increasing order
SortedSeq(S) ==
    IF S = {} THEN <<>>
    ELSE LET least == CHOOSE x \in S : \A y \in S : x <= y
         IN  <<least>> \o SortedSeq(S \ {least})

\* the rows a previous run can have left for a market: entered at 48/52 with the
\* stakes of generate_entry_orders, entered with a larger stake, exited, resolved
StoredRow(m, yes_price, stake, state, exit_price) ==
    RowOf([StraddlePosition(m, yes_price, 100 - yes_price,
                            Rat(stake, yes_price), Rat(stake, 100 - yes_price),
                            IF yes_price < 100 - yes_price THEN "YES" ELSE "NO",
                            IF yes_price < 100 - yes_price THEN "NO" ELSE "YES",
                            state, 0)
           EXCEPT !.exit_price = exit_price,
                  !.exit_time = IF exit_price = None THEN None ELSE 0,
                  !.realized_pnl = IF exit_price = None THEN Zero
                                   ELSE RatScale(yes_price - exit_price,
                                                 Rat(stake, yes_price))])

StoredRows(m) ==
    {<<>>,
     <<StoredRow(m, 48, 3000, "ENTERED", None)>>,
     <<StoredRow(m, 48, 7000, "ENTERED", None)>>,
     <<StoredRow(m, 48, 3000, "EXITED", 18)>>,
     <<StoredRow(m, 48, 3000, "RESOLVED", 18)>>}

RowOrders == {<<M1, M2>>, <<M2, M1>>}

----------------------------------------------------------------------------
(* SpecStore: a client of SqlitePersistence.  It saves positions, reads them *)
(* back with load_straddle_positions and get_straddle_position, in any      *)
(* order.  heap keeps the objects it has saved, in the order of the saves,  *)
(* and positions[m] the last one saved for market m.                        *)

MaxSaves == 3

SaveStraddlePosition ==
    \E m \in Markets : \E row \in StoredRows(m) \ {<<>>} :
        /\ Len(heap) < MaxSaves
        /\ LET position == PositionOfRow(row[1])
           IN  /\ db' = save_straddle_position(db, position)
               /\ heap' = Append(heap, position)
               /\ positions' = [positions EXCEPT ![m] = Len(heap) + 1]
               /\ lastOp' = [NoOp EXCEPT !.op = "save_straddle_position",
                                         !.obj = Len(heap) + 1]
        /\ UNCHANGED <<now, resolves, execVars, pc, active_markets, scanned_markets,
                       books, subscribed_markets, risk, posted, tickLog>>

LoadStraddlePositions ==
    \E order \in RowOrders :
        /\ lastOp' = [NoOp EXCEPT !.op = "load_straddle_positions",
                                  !.ret = load_straddle_positions(db, order)]
        /\ UNCHANGED <<heap, positions, now, resolves, execVars, botVars>>

GetStraddlePosition ==
    \E m \in Markets :
        /\ lastOp' = [NoOp EXCEPT !.op = "get_straddle_position",
                                  !.fill = [NoFill EXCEPT !.market_id = m],
                                  !.ret = get_straddle_position(db, m)]
        /\ UNCHANGED <<heap, positions, now, resolves, execVars, botVars>>

StoreNext == SaveStraddlePosition \/ LoadStraddlePositions \/ GetStraddlePosition

\* answers of the Gamma API: a list of listings, or a failed request (line 109)
ApiAnswers ==
    {[ok |-> TRUE, data |-> d] : d \in
        {<<Listing(M1, TRUE, 2, None)>>,
         <<Listing(M1, TRUE, 2, None), Listing(M2, TRUE, 2, 600)>>,
         <<Listing(M2, TRUE, 2, None), Listing(M1, TRUE, 2, None)>>,
         <<Listing(M1, FALSE, 2, None), Listing(M2, TRUE, 3, None),
           Listing(M2, TRUE, 2, 100)>>}}
    \cup {[ok |-> FALSE, data |-> <<>>]}

\* best asks the feed reports
FeedAsks == {None, 15, 50, 85}

\* the venue in a phase: it accepts a POST and fills the order at once, accepts it and
\* leaves it pending, or refuses every POST
VenueEnvs ==
    {[fails |-> 0, status |-> "filled"], [fails |-> 0, status |-> "pending"],
     [fails |-> max_retries, status |-> "pending"]}

NoEnv == [fails |-> 0, status |-> ""]

NoTick == [markets |-> <<>>, scan |-> <<>>, scan_raised |-> "",
           exits |-> <<>>, exits_raised |-> "", cancelled |-> {}, env |-> NoEnv,
           stop |-> "", stopped_at |-> ""]

BotIdle ==
    /\ pc = "new"
    /\ active_markets = {}
    /\ scanned_markets = {}
    /\ books = [m \in Markets |-> NoBook]
    /\ subscribed_markets = {}
    /\ risk = NoRisk
    /\ db = [m \in Markets |-> <<>>]
    /\ posted = <<>>
    /\ tickLog = NoTick

BotInit ==
    /\ TrackerInit /\ ExecIdle
    /\ pc = "new"
    /\ active_markets = {}
    /\ scanned_markets = {}
    /\ books = [m \in Markets |-> NoBook]
    /\ subscribed_markets = {}
    /\ risk = NoRisk
    /\ db \in [Markets -> UNION {StoredRows(m) : m \in Markets}]
    /\ \A m \in Markets : db[m] \in StoredRows(m)
    /\ posted = <<>>
    /\ tickLog = NoTick

\* the state the operators of the orchestrator work on
Bundle ==
    [heap |-> heap, positions |-> positions, active_markets |-> active_markets,
     subscribed_markets |-> subscribed_markets, risk |-> risk, db |-> db,
     posted |-> posted, cancelled |-> {}, log |-> <<>>, raised |-> ""]

Stored(b) ==
    /\ heap' = b.heap
    /\ positions' = b.positions
    /\ active_markets' = b.active_markets
    /\ subscribed_markets' = b.subscribed_markets
    /\ risk' = b.risk
    /\ db' = b.db
    /\ posted' = b.posted

\* the order of the phases of a tick with the try of each phase omitted: an
\* exception raised inside a phase reaches the except of line 236, which sleeps
after_phase_uncaught(phase, raised) ==
    IF raised # "" THEN "sleep"
    ELSE CASE phase = "scan" -> "exits"
           [] phase = "exits" -> "fills"
           [] phase = "fills" -> "sleep"
           [] phase = "sleep" -> "scan"

\* the order of the phases of a tick with process_fills awaited before check_exits
after_phase_fills_first(phase, raised) ==
    CASE phase = "scan" -> "fills"
      [] phase = "fills" -> "exits"
      [] phase = "exits" -> "sleep"
      [] phase = "sleep" -> "scan"

\* run(), lines 215-238: what the loop awaits once `phase` has returned, where
\* `raised` is the exception raised inside the phase ("" for none); every one the
\* phases raise is an Exception, which the except of lines 151 and 195 catches,
\* so none reaches the try of run and the order of lines 221-230 is kept
after_phase(phase, raised) ==
    CASE phase = "scan" -> "exits"
      [] phase = "exits" -> "fills"
      [] phase = "fills" -> "sleep"
      [] phase = "sleep" -> "scan"

\* shutdown(): nothing is cancelled (the body of the loop of line 249 is pass);
\* every active position of the tracker is saved
shutdown(b) ==
    [b EXCEPT !.db = [m \in Markets |->
                         IF /\ b.positions[m] # 0
                            /\ b.heap[b.positions[m]].state # "RESOLVED"
                         THEN save_straddle_position(@, b.heap[b.positions[m]])[m]
                         ELSE @[m]]]

\* initialize(): the load either succeeds or raises, which line 72 catches
Initialize ==
    \E order \in RowOrders, loads \in BOOLEAN :
        /\ pc = "new"
        /\ LET loaded == IF loads THEN load_straddle_positions(db, order) ELSE <<>>
           IN  Stored(initialize_loop(Bundle, loaded, 1))
        /\ pc' = "scan"
        /\ UNCHANGED <<now, lastOp, resolves, scanned_markets, books, tickLog, execVars>>

\* scan_and_enter(): the scan, then the loop over the markets it returned
ScanAndEnter ==
    \E answer \in ApiAnswers, env \in VenueEnvs :
        /\ pc = "scan"
        /\ LET s == IF answer.ok THEN scan(answer.data, 1, scanned_markets)
                    ELSE [markets |-> <<>>, cache |-> scanned_markets]
               b == scan_and_enter_loop(Bundle, s.markets, 1, books, env, now)
           IN  /\ Stored(b)
               /\ scanned_markets' = s.cache
               /\ tickLog' = [NoTick EXCEPT !.markets = s.markets, !.scan = b.log,
                                            !.scan_raised = b.raised,
                                            !.cancelled = b.cancelled]
        /\ pc' = after_phase("scan", tickLog'.scan_raised)
        /\ UNCHANGED <<now, lastOp, resolves, books, execVars>>

\* check_exits(): the loop over the active positions, in the order of the tracker
BotCheckExits ==
    \E env \in VenueEnvs :
        /\ pc = "exits"
        /\ LET ids == SortedSeq(get_active_positions(positions, heap))
               b == check_exits_loop(Bundle, ids, 1, books, env, now)
           IN  /\ Stored(b)
               /\ tickLog' = [tickLog EXCEPT !.exits = b.log, !.exits_raised = b.raised,
                                             !.env = env]
        /\ pc' = after_phase("exits", tickLog'.exits_raised)
        /\ UNCHANGED <<now, lastOp, resolves, scanned_markets, books, execVars>>

\* process_fills(): its body is pass
ProcessFills ==
    /\ pc = "fills"
    /\ pc' = after_phase("fills", "")
    /\ UNCHANGED <<trackerVars, execVars, active_markets, scanned_markets, books,
                   subscribed_markets, risk, db, posted, tickLog>>

\* asyncio.sleep(5), and the loop starts again
Sleep ==
    /\ pc = "sleep"
    /\ now < MaxTime
    /\ now' = now + 1
    /\ pc' = after_phase("sleep", "")
    /\ UNCHANGED <<heap, positions, lastOp, resolves, active_markets, scanned_markets,
                   books, subscribed_markets, risk, db, posted, tickLog, execVars>>

\* the feed calls update_snapshot; it runs on the event loop, so while run awaits:
\* during the sleep and during the scan's request, before the loop of line 87
UpdateSnapshot ==
    \E m \in Markets, ask \in FeedAsks :
        /\ pc = "scan"
        /\ books' = [books EXCEPT ![m] = Book(ask)]
        /\ UNCHANGED <<trackerVars, execVars, pc, active_markets, scanned_markets,
                       subscribed_markets, risk, db, posted, tickLog>>

\* Ctrl+C while run() is on the stack.  Raised as KeyboardInterrupt in the code of
\* the coroutine, no phase catches it (they catch Exception) and the except of
\* line 232 leaves the loop for shutdown(), wherever the tick was.  Delivered to
\* the task as CancelledError at an await, while the scan's request or the sleep is
\* pending, no except of run() catches it and run() is left at once.
Stop ==
    \E how \in {"KeyboardInterrupt", "CancelledError"} :
        /\ pc \in {"scan", "exits", "fills", "sleep"}
        /\ how = "CancelledError" => pc \in {"scan", "sleep"}
        /\ Stored(IF how = "KeyboardInterrupt" THEN shutdown(Bundle) ELSE Bundle)
        /\ pc' = IF how = "KeyboardInterrupt" THEN "stopped" ELSE "cancelled"
        /\ tickLog' = [NoTick EXCEPT !.stop = how, !.stopped_at = pc]
        /\ UNCHANGED <<now, lastOp, resolves, scanned_markets, books, execVars>>

BotNext ==
    Initialize \/ ScanAndEnter \/ BotCheckExits \/ ProcessFills \/ Sleep
        \/ UpdateSnapshot \/ Stop

vars == <<trackerVars, execVars, botVars>>

Init == TrackerInit /\ ExecIdle /\ BotIdle
Spec == Init /\ [][Next]_vars

ExecInit == TrackerInit /\ ExecIdle /\ BotIdle
SpecExec == ExecInit /\ [][ExecNext]_vars

SpecBot == BotInit /\ [][BotNext]_vars

SpecStore == Init /\ [][StoreNext]_vars

RiskInit == TrackerInit /\ ExecIdle /\ BotIdle
SpecRisk == RiskInit /\ [][RiskNext]_vars

----------------------------------------------------------------------------
(* Claims checked under Spec *)

Rank(state) ==
    CASE state = "WAITING_ENTRY" -> 0 [] state = "ENTERED" -> 1
      [] state = "EXITED" -> 2 [] state = "RESOLVED" -> 3

\* C1: in every step, whatever method is called, the state of every existing
\* StraddlePosition object stays where it is or moves forward in the order
\* ENTERED, EXITED, RESOLVED; a RESOLVED object stays RESOLVED.
C1_StateMovesForward ==
    [][\A id \in Objects :
            /\ Rank(heap'[id].state) >= Rank(heap[id].state)
            /\ heap[id].state = "RESOLVED" => heap'[id].state = "RESOLVED"]_vars

\* C1 witness: a position that was exited and then resolved has since been given
\* a SELL fill on its cheap leg and is still RESOLVED
C1_Witness ==
    /\ lastOp.op = "update_position_from_fill"
    /\ lastOp.obj \in Objects
    /\ heap[lastOp.obj].state = "RESOLVED"
    /\ heap[lastOp.obj].exit_price # None
    /\ IsCheapSideSell(heap[lastOp.obj], lastOp.fill)

\* the current price of the side recorded as cheap_side: the YES ask, or its
\* complement when cheap_side is NO
CheapSidePrice(position, book) ==
    IF position.cheap_side = "YES" THEN book.best_ask ELSE 100 - book.best_ask

CheapLegSize(position) ==
    IF position.cheap_side = "YES" THEN position.yes_size ELSE position.no_size

\* C6: for an ENTERED position and a snapshot with an ask, check_exits returns
\* exactly one SELL intent of the cheap leg's full size when the cheap side's
\* price is at or below exit_threshold, and an empty list when it is above.
C6_CheckExitsAtThreshold ==
    (/\ lastOp.op = "check_exits"
     /\ lastOp.book.present /\ lastOp.book.best_ask # None
     /\ heap[lastOp.obj].state = "ENTERED")
    => LET position == heap[lastOp.obj]
           p == CheapSidePrice(position, lastOp.book)
       IN  IF p <= exit_threshold
           THEN /\ Len(lastOp.ret) = 1
                /\ lastOp.ret[1].side = "SELL"
                /\ lastOp.ret[1].size = CheapLegSize(position)
           ELSE lastOp.ret = <<>>

\* C7: a fill applied by update_position_from_fill to a position that is already
\* EXITED leaves its state, exit_price, exit_time and realized_pnl as they were.
C7_SecondFillIsNoOp ==
    [][\A id \in Objects :
            (/\ heap[id].state = "EXITED"
             /\ lastOp'.op = "update_position_from_fill"
             /\ lastOp'.obj = id)
            => /\ heap'[id].state = "EXITED"
               /\ heap'[id].exit_price = heap[id].exit_price
               /\ heap'[id].exit_time = heap[id].exit_time
               /\ heap'[id].realized_pnl = heap[id].realized_pnl]_vars

\* C7 witness: an EXITED position has been given a further SELL fill on its cheap
\* leg, at another price and a later time than its exit
C7_Witness ==
    /\ lastOp.op = "update_position_from_fill"
    /\ lastOp.obj \in Objects
    /\ heap[lastOp.obj].state = "EXITED"
    /\ IsCheapSideSell(heap[lastOp.obj], lastOp.fill)
    /\ lastOp.fill.price # heap[lastOp.obj].exit_price
    /\ lastOp.fill.filled_at > heap[lastOp.obj].exit_time

----------------------------------------------------------------------------
(* Claims checked under SpecExec *)

\* C8: submit_order makes at most max_retries POSTs with a back-off between
\* consecutive ones, never raises to its caller, and when every POST failed it
\* returns a LiveOrder with status failed and an empty order_hash.
C8_SubmitOrderNeverRaises ==
    execRet.op = "submit_order"
    => /\ execRet.attempts <= max_retries
       /\ Len(execRet.sleeps) = execRet.attempts - 1
       /\ execRet.raised = ""
       /\ execRet.accepted = <<>>
          => /\ Len(execRet.order) = 1
             /\ execRet.order[1].status = "failed"
             /\ execRet.order[1].order_hash = ""

\* C9: when wait_for_fills has returned, its result holds a fill for every order
\* of the call that the venue marked filled while it was waiting, before the timeout.
C9_FillDuringWaitIsReported ==
    wf.status = "returned"
    => \A h \in wf.filledDuring :
          \E i \in 1..Len(wf.fills) : wf.fills[i].order_hash = h

\* C10: wait_for_fills never runs past its timeout and always ends by returning:
\* at the first poll that finds every order terminal, or at the timeout.
C10_WaitForFillsAlwaysReturns ==
    /\ wf.status = "polling" => wf.elapsed <= wf.timeout
    /\ wf.status # "raised"
    /\ wf.status = "returned" => all_done(wf.orders) \/ wf.elapsed >= wf.timeout

----------------------------------------------------------------------------
(* Claims checked under SpecBot *)

\* the tracker holds a position on market m that is not RESOLVED
HasActivePosition(m) == positions[m] # 0 /\ heap[positions[m]].state # "RESOLVED"

\* C3: after every step there is at most one StraddlePosition object per market
\* that is not RESOLVED; and for a market whose tracked position is not RESOLVED
\* when scan_and_enter runs, rehydrated ones included, the loop of scan_and_enter
\* stops at the test of _active_markets: it POSTs no order for the market's legs
\* and leaves the tracker's entry as it is.
C3_OneActivePositionPerMarket ==
    [][/\ \A m \in Markets :
              Cardinality({id \in 1..Len(heap') : /\ heap'[id].market_id = m
                                                  /\ heap'[id].state # "RESOLVED"}) <= 1
       /\ (pc = "scan" /\ pc' = "exits")
          => \A m \in Markets :
                HasActivePosition(m)
                => /\ \A i \in 1..Len(tickLog'.scan) :
                          tickLog'.scan[i].market = m
                          => tickLog'.scan[i].outcome = "active"
                   /\ \A k \in (Len(posted) + 1)..Len(posted') :
                          posted'[k].market \notin {LegId(m, sd) : sd \in Sides}
                   /\ positions'[m] = positions[m]]_vars

\* C3 witness: a scan has returned a market whose position was rehydrated by
\* initialize and is ENTERED, at a moment when its book, should_enter and the
\* risk gate would all have let it be entered, and skipped it as active
C3_Witness ==
    /\ pc = "exits"
    /\ \E i \in 1..Len(tickLog.scan) :
          LET m == tickLog.scan[i].market
          IN  /\ tickLog.scan[i].outcome = "active"
              /\ HasActivePosition(m)
              /\ heap[positions[m]].state = "ENTERED"
              /\ should_enter(books[m])
              /\ can_enter_new_position(risk, calculate_position_size(risk, Bankroll).ret)

\* C4: when check_exits runs over an ENTERED position with a snapshot in which
\* the price of its cheap side is at or below exit_threshold, and the venue fills
\* the exit order at once, then at the end of check_exits the position is EXITED
\* with exit_price and exit_time set, and the table holds the EXITED position.
C4_ExitCompletesInTick ==
    [][(pc = "exits" /\ pc' = "fills")
       => \A m \in Markets :
             (/\ positions[m] # 0
              /\ heap[positions[m]].state = "ENTERED"
              /\ books[m].present /\ books[m].best_ask # None
              /\ CheapSidePrice(heap[positions[m]], books[m]) <= exit_threshold
              /\ tickLog'.env = [fails |-> 0, status |-> "filled"])
             => /\ heap'[positions[m]].state = "EXITED"
                /\ heap'[positions[m]].exit_price # None
                /\ heap'[positions[m]].exit_time # None
                /\ db'[m] = <<RowOf(heap'[positions[m]])>>]_vars

\* C5: when scan_and_enter runs and the scanner returns a market that is not in
\* _active_markets, has a snapshot, passes should_enter and passes
\* can_enter_new_position, then by the end of scan_and_enter the execution engine
\* has POSTed a BUY order for the market's YES leg and one for its NO leg.
C5_EligibleMarketIsSubmitted ==
    [][(pc = "scan" /\ pc' = "exits")
       => \A i \in 1..Len(tickLog'.markets) :
             LET m == tickLog'.markets[i]
             IN  (/\ m \notin active_markets
                  /\ books[m].present
                  /\ should_enter(books[m])
                  /\ can_enter_new_position(risk,
                                            calculate_position_size(risk, Bankroll).ret))
                 => \A sd \in Sides :
                       \E k \in (Len(posted) + 1)..Len(posted') :
                          /\ posted'[k].market = LegId(m, sd)
                          /\ posted'[k].side = "buy"]_vars

----------------------------------------------------------------------------
(* Claims about the cancels and the index of RestExecutionEngine, under SpecExec *)

\* C12: cancel_unfilled_orders calls cancel_order for exactly the orders that are
\* older than timeout_seconds and whose status is not filled, cancelled or
\* failed: never for a terminal order, never for a younger one.
C12_CancelsOnlyOldLiveOrders ==
    execRet.op = "cancel_unfilled_orders" =>
        LET orders == execRet.args[1]
            timeout_seconds == execRet.args[2]
            t == execRet.args[3]
        IN  \A i \in 1..Len(orders) :
                (\E k \in 1..Len(execRet.deletes) : execRet.deletes[k] = i)
                <=> /\ t - orders[i].created_at > timeout_seconds
                    /\ orders[i].status \notin TerminalStatuses

\* C13: cancel_order never raises when the DELETE fails; on failure the index of
\* pending orders is what it was, and on success it is the index without the
\* cancelled order_hash.
C13_CancelOrderNeverRaises ==
    execRet.op = "cancel_order" =>
        /\ execRet.raised = ""
        /\ ~execRet.args[2] => pending_orders = execRet.before
        /\ execRet.args[2] => pending_orders = Pop(execRet.before, execRet.args[1])

\* a DELETE for an order live with the venue has failed, and cancel_order returned
C13_Witness ==
    /\ execRet.op = "cancel_order"
    /\ ~execRet.args[2]
    /\ execRet.args[1] \in Hashes
    /\ venue[execRet.args[1]] \in {"pending", "open"}

\* C14: after a submit_order that the venue accepts, a LiveOrder is returned that
\* carries the hash the venue assigned and is stored in the index under that
\* hash; the order of a submission that failed is not in the index.
C14_AcceptedOrderIsIndexed ==
    execRet.op = "submit_order" =>
        IF execRet.accepted # <<>>
        THEN /\ execRet.order # <<>>
             /\ execRet.order[1].order_hash = execRet.accepted[1].hash
             /\ execRet.accepted[1].hash \in DOMAIN pending_orders
             /\ pending_orders[execRet.accepted[1].hash] = execRet.order[1]
        ELSE pending_orders = execRet.before

----------------------------------------------------------------------------
(* Claims about SimpleRiskManager, under SpecRisk *)

\* C15: once max_concurrent_positions positions are registered,
\* can_enter_new_position returns false for every proposed size, and an entry
\* made behind that gate never leaves more than max_concurrent_positions
\* positions registered.
C15_GateClosesAtMaxPositions ==
    /\ lastOp.op \in {"can_enter_new_position", "gated_entry"}
           /\ lastOp.ret[1].registered >= max_concurrent_positions
        => ~lastOp.ret[1].result
    /\ lastOp.op = "gated_entry" /\ lastOp.ret[1].registered <= max_concurrent_positions
        => Len(risk.active_positions) <= max_concurrent_positions

\* the gate was asked with max_concurrent_positions positions registered, whose
\* exposure left room for the proposed size under both exposure limits
C15_Witness ==
    /\ lastOp.op = "gated_entry"
    /\ lastOp.ret[1].registered = max_concurrent_positions
    /\ can_enter_new_position_any_count(lastOp.ret[1].before, lastOp.ret[1].proposed_size)
    /\ Len(risk.active_positions) = max_concurrent_positions

\* the two limits of can_enter_new_position, in cents, for the call c
ExceedsRelativeLimit(c) ==
    RatLt(RatInt(c.bankroll * (max_concurrent_positions * position_size_pct)),
          RatAdd(c.total_exposure, RatInt(c.proposed_size)))
ExceedsAbsoluteLimit(c) ==
    RatLt(RatInt(100 * max_total_exposure),
          RatAdd(c.total_exposure, RatInt(c.proposed_size)))

\* C16 (as stated): with fewer than max_concurrent_positions positions
\* registered, can_enter_new_position(s) returns false exactly when
\* total_exposure + s exceeds both limits, and true otherwise.
C16_FalseWhenBothLimitsExceeded ==
    lastOp.op = "can_enter_new_position"
        /\ lastOp.ret[1].registered < max_concurrent_positions
    => (~lastOp.ret[1].result
            <=> ExceedsRelativeLimit(lastOp.ret[1]) /\ ExceedsAbsoluteLimit(lastOp.ret[1]))

\* C16 (amended): with fewer than max_concurrent_positions positions
\* registered, can_enter_new_position(s) returns false exactly when
\* total_exposure + s exceeds at least one of the two limits, and true otherwise.
C16_FalseWhenEitherLimitExceeded ==
    lastOp.op = "can_enter_new_position"
        /\ lastOp.ret[1].registered < max_concurrent_positions
    => (~lastOp.ret[1].result
            <=> ExceedsRelativeLimit(lastOp.ret[1]) \/ ExceedsAbsoluteLimit(lastOp.ret[1]))

\* the gate refused a size that exceeds the absolute limit only
C16_Witness ==
    /\ lastOp.op = "can_enter_new_position"
    /\ lastOp.ret[1].registered < max_concurrent_positions
    /\ lastOp.ret[1].registered > 0
    /\ ~lastOp.ret[1].result
    /\ ExceedsAbsoluteLimit(lastOp.ret[1])
    /\ ~ExceedsRelativeLimit(lastOp.ret[1])

\* C17: after any sequence of register and unregister calls the total exposure
\* is the sum of yes_entry_price x yes_size + no_entry_price x no_size over the
\* registered positions, and unregistering a position that is not registered
\* changes neither the list nor the total.
C17_TotalExposureIsSum ==
    /\ risk.total_exposure = SumExposure(risk.active_positions, heap, 1)
    /\ lastOp.op = "unregister_straddle_position"
           /\ EqualTo(lastOp.ret[1].before, lastOp.obj, heap) = {}
        => risk = lastOp.ret[1].before

\* one of several registered positions has been unregistered
C17_Witness ==
    /\ lastOp.op = "unregister_straddle_position"
    /\ Len(lastOp.ret[1].before.active_positions) >= 3
    /\ Len(risk.active_positions) = Len(lastOp.ret[1].before.active_positions) - 1
    /\ \E i, j \in 1..Len(risk.active_positions) :
           heap[risk.active_positions[i]] # heap[risk.active_positions[j]]

----------------------------------------------------------------------------
(* Claims about the sizes and the realized P/L, under Spec.  Money is in cents. *)

\* C18: generate_entry_orders splits the position size (bankroll x
\* position_size_pct) across the two legs: the stakes price x size of the YES
\* intent and of the NO intent are equal and add up to the position size.
C18_StakesAddUpToPositionSize ==
    lastOp.op = "generate_entry_orders" /\ lastOp.ret # <<>> =>
        LET yes_stake == RatScale(lastOp.ret[1].price, lastOp.ret[1].size)
            no_stake == RatScale(lastOp.ret[2].price, lastOp.ret[2].size)
        IN  /\ yes_stake = no_stake
            /\ RatAdd(yes_stake, no_stake) = RatInt(Bankroll * position_size_pct)

\* the size of the favourite leg of a position, and its entry price
FavoriteSize(position) ==
    IF position.favorite_side = "YES" THEN position.yes_size ELSE position.no_size
FavoritePrice(position) ==
    IF position.favorite_side = "YES" THEN position.yes_entry_price
    ELSE position.no_entry_price

\* C19: resolve_position leaves the position RESOLVED whatever its state was; if
\* favorite_side is the final outcome, realized_pnl grows by
\* favorite_size x (1 - favorite_entry_price), and otherwise it keeps its value.
C19_ResolveAddsFavoriteGain ==
    [][lastOp'.op = "resolve_position" /\ resolves' # resolves =>
        LET before == heap[lastOp'.obj]
            after == heap'[lastOp'.obj]
        IN  /\ after.state = "RESOLVED"
            /\ after.realized_pnl =
                   IF before.favorite_side = lastOp'.ret[1]
                   THEN RatAdd(before.realized_pnl,
                               RatScale(100 - FavoritePrice(before), FavoriteSize(before)))
                   ELSE before.realized_pnl]_vars

\* an exited position, holding the P/L of its exit, was resolved for its favourite
C19_Witness ==
    /\ lastOp.op = "resolve_position"
    /\ resolves[lastOp.obj] = 1
    /\ heap[lastOp.obj].exit_price # None
    /\ heap[lastOp.obj].favorite_side = lastOp.ret[1]
    /\ heap[lastOp.obj].realized_pnl #
           RatScale(100 - FavoritePrice(heap[lastOp.obj]), FavoriteSize(heap[lastOp.obj]))

\* C20: when update_position_from_fill applies an exit fill whose price is below
\* the entry price of the cheap side, the realized_pnl it stores is negative, of
\* magnitude (entry price - exit price) x filled size, and that magnitude is at
\* most the entry stake of the cheap leg.
C20_ExitLossIsNegative ==
    [][/\ lastOp'.op = "update_position_from_fill"
       /\ heap[lastOp'.obj].state = "ENTERED"
       /\ heap'[lastOp'.obj].state = "EXITED"
       /\ lastOp'.fill.price < (IF heap[lastOp'.obj].cheap_side = "YES"
                                THEN heap[lastOp'.obj].yes_entry_price
                                ELSE heap[lastOp'.obj].no_entry_price)
       => LET before == heap[lastOp'.obj]
              entry == IF before.cheap_side = "YES" THEN before.yes_entry_price
                       ELSE before.no_entry_price
              size == IF before.cheap_side = "YES" THEN before.yes_size ELSE before.no_size
              magnitude == RatScale(entry - lastOp'.fill.price, lastOp'.fill.size)
              stored == heap'[lastOp'.obj].realized_pnl
          IN  /\ RatLt(stored, Zero)
              /\ stored = RatSub(Zero, magnitude)
              /\ RatLeq(magnitude, RatScale(entry, size))]_vars

----------------------------------------------------------------------------
(* Further claims about PositionTracker and the strategy, under Spec *)

\* C21: calculate_unrealized_pnl returns 0 for every position that is not
\* ENTERED, whatever the prices and the realized_pnl; for an ENTERED position and
\* two prices it returns the current value of both legs minus their entry cost.
C21_UnrealizedPnlZeroUnlessEntered ==
    lastOp.op = "calculate_unrealized_pnl" =>
        LET position == heap[lastOp.obj]
            yes == lastOp.ret[2]
            no == lastOp.ret[3]
        IN  IF position.state # "ENTERED" THEN lastOp.ret[1] = Zero
            ELSE yes # None /\ no # None =>
                 lastOp.ret[1] =
                     RatSub(RatAdd(RatScale(yes, position.yes_size),
                                   RatScale(no, position.no_size)),
                            RatAdd(RatScale(position.yes_entry_price, position.yes_size),
                                   RatScale(position.no_entry_price, position.no_size)))

C30_ShouldEnterWithinTolerance ==
    lastOp.op = "should_enter" =>
        (lastOp.ret[1] <=>
            /\ lastOp.book.present
            /\ lastOp.book.best_ask # None
            /\ Abs(lastOp.book.best_ask - 50) <= entry_price_tolerance
            /\ Abs((100 - lastOp.book.best_ask) - 50) <= entry_price_tolerance)

----------------------------------------------------------------------------
(* Claims about SqlitePersistence, under SpecStore *)

\* C23: after any sequence of saves, load_straddle_positions returns exactly one
\* position for each market whose last saved state is not RESOLVED, equal field
\* for field to that last save, and none for any other market;
\* get_straddle_position returns the last save of a market also when it is
\* RESOLVED.
C23_LoadReturnsLatestSaves ==
    /\ lastOp.op = "load_straddle_positions" =>
           \A m \in Markets :
               LET found == {i \in 1..Len(lastOp.ret) : lastOp.ret[i].market_id = m}
               IN  IF positions[m] # 0 /\ heap[positions[m]].state # "RESOLVED"
                   THEN /\ Cardinality(found) = 1
                        /\ \A i \in found : lastOp.ret[i] = heap[positions[m]]
                   ELSE found = {}
    /\ lastOp.op = "get_straddle_position" =>
           LET m == lastOp.fill.market_id
           IN  lastOp.ret = IF positions[m] = 0 THEN <<>> ELSE <<heap[positions[m]]>>

\* a market saved as ENTERED and then as EXITED is loaded as EXITED, with its
\* exit time, while the other market, saved last as RESOLVED, is not loaded
C23_Witness ==
    /\ lastOp.op = "load_straddle_positions"
    /\ Len(lastOp.ret) = 1
    /\ lastOp.ret[1].state = "EXITED"
    /\ lastOp.ret[1].exit_time # None
    /\ \E id \in Objects : /\ heap[id].market_id = lastOp.ret[1].market_id
                            /\ heap[id].state = "ENTERED"
                            /\ id < positions[lastOp.ret[1].market_id]
    /\ \E m \in Markets : positions[m] # 0 /\ heap[positions[m]].state = "RESOLVED"

\* C24: once initialize() has returned, and before the first tick changes
\* anything, the markets of _active_markets, the markets of the tracker's active
\* positions and the positions registered with the risk manager are exactly the
\* rows of the table whose state is not RESOLVED, each tracked position equals its
\* row, and total_exposure is the sum of the exposures of the registered ones.
C24_RestartRestoresStoredPositions ==
    (pc = "scan" /\ now = 0)
    => LET stored == {m \in Markets : db[m] # <<>> /\ db[m][1].state # "RESOLVED"}
           active == get_active_positions(positions, heap)
       IN  /\ active_markets = stored
           /\ {heap[id].market_id : id \in active} = stored
           /\ \A m \in stored : /\ positions[m] # 0
                                /\ heap[positions[m]] = PositionOfRow(db[m][1])
           /\ {risk.active_positions[i] : i \in 1..Len(risk.active_positions)} = active
           /\ Len(risk.active_positions) = Cardinality(stored)
           /\ risk.total_exposure = SumExposure(risk.active_positions, heap, 1)

\* C26: when an exception is raised inside scan_and_enter, the loop goes on with
\* check_exits; when one is raised inside check_exits, it goes on with
\* process_fills; and run() is left only by a step that is a stop, never by a
\* phase.
C26_PhaseExceptionIsCaught ==
    [][/\ (pc = "scan" /\ pc' # pc /\ tickLog'.stop = "" /\ tickLog'.scan_raised # "")
          => pc' = "exits"
       /\ (pc = "exits" /\ pc' # pc /\ tickLog'.stop = "" /\ tickLog'.exits_raised # "")
          => pc' = "fills"
       /\ (pc' \in {"stopped", "cancelled"} /\ pc' # pc)
          => tickLog'.stop \in {"KeyboardInterrupt", "CancelledError"}]_vars

\* the loop has started a new tick after one in which scan_and_enter and
\* check_exits both raised
C26_Witness ==
    /\ pc = "scan"
    /\ now >= 1
    /\ tickLog.scan_raised # ""
    /\ tickLog.exits_raised # ""

\* C27: run() is at one place at a time, and whenever it moves on without a stop
\* it moves from initialize to scan_and_enter, from scan_and_enter to check_exits,
\* from check_exits to process_fills, from process_fills to the sleep, or from the
\* sleep to scan_and_enter.
C27_PhasesRunInOrder ==
    [][/\ pc' \in {"new", "scan", "exits", "fills", "sleep", "stopped", "cancelled"}
       /\ (pc' # pc /\ tickLog'.stop = "")
          => <<pc, pc'>> \in {<<"new", "scan">>, <<"scan", "exits">>,
                              <<"exits", "fills">>, <<"fills", "sleep">>,
                              <<"sleep", "scan">>}]_vars

\* a first tick has gone through its four phases, and a second one, whose scan
\* returned markets, is at check_exits
C27_Witness ==
    /\ pc = "exits"
    /\ now >= 1
    /\ tickLog.markets # <<>>

\* C28: when run() has been left on a stop request, the stop took effect during
\* the sleep or before the next tick began, not inside the tick's work, and the
\* table holds every active position of the tracker as it is now.
C28_StopFinishesTickAndSaves ==
    pc \in {"stopped", "cancelled"}
    => /\ \/ tickLog.stopped_at = "sleep"
          \/ tickLog.stopped_at = "scan" /\ tickLog.stop = "KeyboardInterrupt"
       /\ \A m \in Markets :
             HasActivePosition(m) => db[m] = <<RowOf(heap[positions[m]])>>

\* C31 as stated: every call of generate_entry_orders returns exactly two BUY
\* intents, the first for the leg <market>-YES and the second for <market>-NO,
\* with equal stakes price x size.
C31_AlwaysTwoEqualBuyIntents ==
    lastOp.op = "generate_entry_orders"
    => /\ Len(lastOp.ret) = 2
       /\ lastOp.ret[1].side = "BUY" /\ lastOp.ret[2].side = "BUY"
       /\ lastOp.ret[1].market_id = LegId(M1, "YES")
       /\ lastOp.ret[2].market_id = LegId(M1, "NO")
       /\ RatScale(lastOp.ret[1].price, lastOp.ret[1].size)
              = RatScale(lastOp.ret[2].price, lastOp.ret[2].size)

\* C31: when should_enter is true of the book, generate_entry_orders returns
\* exactly two BUY intents, the first for the leg <market>-YES and the second for
\* <market>-NO, with equal stakes price x size; when it is false, it returns the
\* empty list.
C31_TwoEqualBuyIntentsWhenEntering ==
    lastOp.op = "generate_entry_orders"
    => IF should_enter(lastOp.book)
       THEN /\ Len(lastOp.ret) = 2
            /\ lastOp.ret[1].side = "BUY" /\ lastOp.ret[2].side = "BUY"
            /\ lastOp.ret[1].market_id = LegId(M1, "YES")
            /\ lastOp.ret[2].market_id = LegId(M1, "NO")
            /\ RatScale(lastOp.ret[1].price, lastOp.ret[1].size)
                   = RatScale(lastOp.ret[2].price, lastOp.ret[2].size)
       ELSE lastOp.ret = <<>>

\* two intents have been returned for a book whose two prices differ
C31_Witness ==
    /\ lastOp.op = "generate_entry_orders"
    /\ Len(lastOp.ret) = 2
    /\ lastOp.ret[1].price # lastOp.ret[2].price

\* C32: whatever calls came before, get_active_positions returns exactly the
\* objects the tracker holds under some market whose state is not RESOLVED: every
\* tracked ENTERED or EXITED object is returned, and no RESOLVED object and no
\* object that is not tracked any more is.
C32_ActiveAreTrackedNotResolved ==
    lastOp.op = "get_active_positions"
    => /\ \A m \in Markets :
             (positions[m] # 0 /\ heap[positions[m]].state \in {"ENTERED", "EXITED"})
             => positions[m] \in lastOp.ret[1]
       /\ \A id \in lastOp.ret[1] :
             /\ id \in Objects
             /\ heap[id].state # "RESOLVED"
             /\ \E m \in Markets : positions[m] = id

\* get_active_positions has returned a position that was exited by a fill
C32_Witness ==
    /\ lastOp.op = "get_active_positions"
    /\ \E id \in lastOp.ret[1] : heap[id].state = "EXITED"

\* C35: update_position_from_fill moves an ENTERED position to EXITED only for
\* a SELL fill whose market id is <market>-<cheap_side>; a BUY fill on any market
\* id, and a SELL fill on <market>-<favorite_side>, leave it ENTERED with
\* exit_price, exit_time and realized_pnl as they were.
C35_OnlyCheapLegSellExits ==
    [][(lastOp'.op = "update_position_from_fill" /\ heap[lastOp'.obj].state = "ENTERED")
       => LET before == heap[lastOp'.obj]
              after == heap'[lastOp'.obj]
              fill == lastOp'.fill
          IN  /\ after.state = "EXITED"
                 => /\ fill.side = "SELL"
                    /\ fill.market_id = LegId(before.market_id, before.cheap_side)
              /\ (\/ fill.side = "BUY"
                  \/ fill.market_id = LegId(before.market_id, before.favorite_side))
                 => /\ after.state = "ENTERED"
                    /\ after.exit_price = before.exit_price
                    /\ after.exit_time = before.exit_time
                    /\ after.realized_pnl = before.realized_pnl]_vars

\* C38: when resolve_position is called on a position right after a call that
\* resolved it with the same outcome, state and realized_pnl stay as the first
\* call left them.
C38_ResolveTwiceIsResolveOnce ==
    [][(/\ lastOp'.op = "resolve_position"
        /\ resolves' # resolves
        /\ lastOp.op = "resolve_position"
        /\ lastOp.obj = lastOp'.obj
        /\ lastOp.ret = lastOp'.ret)
       => /\ heap'[lastOp'.obj].state = heap[lastOp'.obj].state
          /\ heap'[lastOp'.obj].realized_pnl = heap[lastOp'.obj].realized_pnl]_vars

\* C33: the positions the risk manager counts against max_concurrent_positions
\* are the registered ones that are not RESOLVED, and total_exposure is the sum
\* of the exposures of those: a registered position that resolve_position has
\* moved to RESOLVED is in neither.
C33_ResolvedPositionsDoNotCount ==
    LET live == SelectSeq(risk.active_positions,
                          LAMBDA id : heap[id].state # "RESOLVED")
    IN  /\ Len(risk.active_positions) = Len(live)
        /\ risk.total_exposure = SumExposure(live, heap, 1)

\* C34: when a call of wait_for_fills with a timeout of a second or more has
\* ended, it has returned, and its result holds exactly one FillEvent for each
\* order of the call whose status is filled and none for any other order,
\* whatever the other orders of the call did.
C34_OneFillPerFilledOrder ==
    (wf.status \in {"returned", "raised"} /\ wf.timeout >= 1)
    => /\ wf.status = "returned"
       /\ \A i \in 1..Len(wf.orders) :
             Cardinality({k \in 1..Len(wf.fills) :
                             wf.fills[k].order_hash = wf.orders[i].order_hash})
                 = IF wf.orders[i].status = "filled" THEN 1 ELSE 0
       /\ \A k \in 1..Len(wf.fills) :
             \E i \in 1..Len(wf.orders) : wf.orders[i].order_hash = wf.fills[k].order_hash

\* C39: a scan returns no market twice and no market that an earlier scan of the
\* same scanner returned, and it remembers every market it returns; so the
\* markets scan_and_enter evaluates in a tick, and the legs it POSTs orders for,
\* are markets no earlier tick evaluated.
C39_EachMarketScannedOnce ==
    [][(pc = "scan" /\ pc' = "exits")
       => LET returned == {tickLog'.markets[i] : i \in 1..Len(tickLog'.markets)}
          IN  /\ Cardinality(returned) = Len(tickLog'.markets)
              /\ returned \cap scanned_markets = {}
              /\ scanned_markets' = scanned_markets \cup returned
              /\ \A i \in 1..Len(tickLog'.scan) : tickLog'.scan[i].market \in returned
              /\ \A k \in (Len(posted) + 1)..Len(posted') :
                    posted'[k].market \in {LegId(m, sd) : m \in returned, sd \in Sides}]_vars

\* in a later tick the API has listed both markets and the scan has returned
\* only the second: the first, returned by an earlier scan and not entered, is
\* left out although its book now passes should_enter
C39_Witness ==
    /\ pc = "exits"
    /\ now >= 1
    /\ tickLog.markets = <<M2>>
    /\ M1 \in scanned_markets
    /\ M1 \notin active_markets
    /\ should_enter(books[M1])

====
